---- MODULE Spec2Model ----
(***************************************************************************)
(* Model of the subnet scanner: the device-type registry and the ordered   *)
(* detection of device_manager.py, the handlers' fetch_logs, the           *)
(* subsection / site scan of site_scanner.py and its IP range expansion.   *)
(*                                                                         *)
(* Python values are represented as follows.                               *)
(*   dict whose iteration order matters : sequence of <<key, value>> pairs *)
(*   dict read by key only              : function from its keys           *)
(*   list                               : sequence                         *)
(*   Optional[str]                      : a string, None being NoneStr     *)
(*   Optional[dict]                     : a function, None being NoneDict  *)
(***************************************************************************)
EXTENDS Integers, Sequences, FiniteSets, TLC

VARIABLES
    detectors,      \* DeviceRegistry._detectors, in iteration order
    handlers,       \* DeviceRegistry._handlers
    scanner,        \* the SiteScanner instance, NoneDict before it is made
    op              \* the last operation called, its inputs and what it returned

vars == <<detectors, handlers, scanner, op>>

NoneStr == "<None>"
NoneDict == [py |-> "None"]

(***************************************************************************)
(* Insertion-ordered dict (the CPython dict the registry keeps).           *)
(***************************************************************************)
Keys(d) == {d[i][1] : i \in DOMAIN d}

HasKey(d, k) == \E i \in DOMAIN d : d[i][1] = k

Get(d, k) == d[CHOOSE i \in DOMAIN d : d[i][1] = k][2]

\* d[k] = v : an existing key keeps its position, a new key goes last
SetItem(d, k, v) ==
    IF HasKey(d, k)
    THEN [i \in DOMAIN d |-> IF d[i][1] = k THEN <<k, v>> ELSE d[i]]
    ELSE Append(d, <<k, v>>)

\* d.pop(k) : the dict without the key, the others in their order
Pop(d, k) == SelectSeq(d, LAMBDA e : e[1] # k)

KeyList(d) == [i \in DOMAIN d |-> d[i][1]]

(***************************************************************************)
(* Python str operations the scanner uses.                                 *)
(***************************************************************************)
CharAt(s, i) == SubSeq(s, i, i)

\* s[a-1:b] of a string: the characters a..b that exist
Slice(s, a, b) ==
    IF a < 1 \/ a > Len(s) \/ b < a THEN ""
    ELSE SubSeq(s, a, IF b > Len(s) THEN Len(s) ELSE b)

\* s[i-1:i]: the character at i, "" past the end
At(s, i) == Slice(s, i, i)

\* sub in s
Contains(s, sub) ==
    \E i \in 1..(Len(s) - Len(sub) + 1) : SubSeq(s, i, i + Len(sub) - 1) = sub

Whitespace == {" ", "\t", "\n", "\r"}

\* s.lstrip(), s.rstrip(), s.strip()
RECURSIVE LStrip(_)
LStrip(s) == IF Len(s) > 0 /\ CharAt(s, 1) \in Whitespace
             THEN LStrip(SubSeq(s, 2, Len(s))) ELSE s

RECURSIVE RStrip(_)
RStrip(s) == IF Len(s) > 0 /\ CharAt(s, Len(s)) \in Whitespace
             THEN RStrip(SubSeq(s, 1, Len(s) - 1)) ELSE s

Strip(s) == RStrip(LStrip(s))

\* s.split(sep) for a separator of one character
RECURSIVE Split(_, _)
Split(s, sep) ==
    IF ~Contains(s, sep)
    THEN <<s>>
    ELSE LET i == CHOOSE i \in 1..Len(s) :
                      CharAt(s, i) = sep /\ \A j \in 1..(i - 1) : CharAt(s, j) # sep
         IN <<SubSeq(s, 1, i - 1)>> \o Split(SubSeq(s, i + 1, Len(s)), sep)

DigitChars == {"0", "1", "2", "3", "4", "5", "6", "7", "8", "9"}

DigitValue(c) ==
    CASE c = "0" -> 0 [] c = "1" -> 1 [] c = "2" -> 2 [] c = "3" -> 3
      [] c = "4" -> 4 [] c = "5" -> 5 [] c = "6" -> 6 [] c = "7" -> 7
      [] c = "8" -> 8 [] c = "9" -> 9

\* s.isdigit(), for the ASCII strings of the model
IsDigit(s) == Len(s) > 0 /\ \A i \in 1..Len(s) : CharAt(s, i) \in DigitChars

\* the value of a string of decimal digits
RECURSIVE DigitsToInt(_)
DigitsToInt(s) ==
    IF Len(s) = 0 THEN 0
    ELSE 10 * DigitsToInt(SubSeq(s, 1, Len(s) - 1)) + DigitValue(CharAt(s, Len(s)))

\* int(s): surrounding whitespace and one sign are accepted; the result is
\* [ok |-> TRUE, value |-> n] or [ok |-> FALSE] for ValueError
IntOf(s) ==
    LET t == Strip(s)
        signed == Len(t) > 0 /\ CharAt(t, 1) \in {"+", "-"}
        digits == IF signed THEN SubSeq(t, 2, Len(t)) ELSE t
    IN IF IsDigit(digits)
       THEN [ok |-> TRUE,
             value |-> IF signed /\ CharAt(t, 1) = "-"
                       THEN 0 - DigitsToInt(digits) ELSE DigitsToInt(digits)]
       ELSE [ok |-> FALSE]

(***************************************************************************)
(* Bounds and input sets of the registry operations.                       *)
(***************************************************************************)
MaxPref == 3

\* type names that get registered; the names a preferred order is made of:
\* two registered ones and one the module-level reorder call of
\* site_scanner.py passes although nothing registers it ("S21")
RegTypes == {"Z15j", "Z15", "T21"}
PrefNames == {"Z15j", "Z15", "S21"}
DetectorFuncs == {"Z15jHandler.detect", "Z15Handler.detect"}

\* what one call detector_func(ip, username, password, timeout) does
ProbeOutcomes == {"true", "false", "raise"}

SeqsUpTo(S, n) == UNION {[1..k -> S] : k \in 0..n}

PreferredOrders == SeqsUpTo(PrefNames, MaxPref)

(***************************************************************************)
(* DeviceRegistry                                                          *)
(***************************************************************************)
register_detector_to(dets, device_type, detector_func) ==
    SetItem(dets, device_type, detector_func)

\* first loop of reorder_detectors: for device_type in preferred_order
RECURSIVE reorder_preferred(_, _, _)
reorder_preferred(preferred_order, current_detectors, new_detectors) ==
    IF preferred_order = <<>>
    THEN <<current_detectors, new_detectors>>
    ELSE LET device_type == Head(preferred_order) IN
         IF HasKey(current_detectors, device_type)
         THEN reorder_preferred(Tail(preferred_order),
                                Pop(current_detectors, device_type),
                                SetItem(new_detectors, device_type,
                                        Get(current_detectors, device_type)))
         ELSE reorder_preferred(Tail(preferred_order), current_detectors,
                                new_detectors)

\* second loop: for device_type, detector in current_detectors.items()
RECURSIVE reorder_remaining(_, _)
reorder_remaining(current_detectors, new_detectors) ==
    IF current_detectors = <<>>
    THEN new_detectors
    ELSE reorder_remaining(Tail(current_detectors),
                           SetItem(new_detectors, Head(current_detectors)[1],
                                   Head(current_detectors)[2]))

\* a reorder that keeps the registration order among the preferred types
reordered_by_registration(dets, preferred_order) ==
    SelectSeq(dets, LAMBDA e : \E i \in DOMAIN preferred_order :
                                   preferred_order[i] = e[1])
    \o SelectSeq(dets, LAMBDA e : \A i \in DOMAIN preferred_order :
                                     preferred_order[i] # e[1])

\* a reorder that forgets the second loop
reordered_drops_remaining(dets, preferred_order) ==
    IF preferred_order = <<>>
    THEN dets
    ELSE reorder_preferred(preferred_order, dets, <<>>)[2]

reordered(dets, preferred_order) ==
    IF preferred_order = <<>>
    THEN dets
    ELSE LET r == reorder_preferred(preferred_order, dets, <<>>)
         IN reorder_remaining(r[1], r[2])

(***************************************************************************)
(* DeviceManager.detect_device_type                                        *)
(* probe[t] is what the detector registered for type t does when called    *)
(* for the ip.                                                             *)
(***************************************************************************)
\* the for loop of detect_device_type; the result is the dict returned, or
\* [raised |-> e] when an exception leaves the method
RECURSIVE detect_loop(_, _)
detect_loop(dets, probe) ==
    IF dets = <<>>
    THEN [device_type |-> "unknown", device_type_source |-> NoneStr]
    ELSE LET device_type == Head(dets)[1]
             called == probe[device_type]
         IN IF called = "raise"
            THEN \* except Exception as e: (prints when verbose) and goes on
                 detect_loop(Tail(dets), probe)
            ELSE IF called = "true"
                 THEN [device_type |-> device_type,
                       device_type_source |-> "registry"]
                 ELSE detect_loop(Tail(dets), probe)

\* a detect_device_type that returns the last match instead of the first
RECURSIVE detect_loop_last(_, _, _)
detect_loop_last(dets, probe, found) ==
    IF dets = <<>>
    THEN found
    ELSE detect_loop_last(Tail(dets), probe,
             IF probe[Head(dets)[1]] = "true"
             THEN [device_type |-> Head(dets)[1], device_type_source |-> "registry"]
             ELSE found)

detect_result_last_match(dets, probe) ==
    detect_loop_last(dets, probe,
                     [device_type |-> "unknown", device_type_source |-> NoneStr])

\* a detect_device_type without the try/except around the detector call
RECURSIVE detect_loop_no_except(_, _)
detect_loop_no_except(dets, probe) ==
    IF dets = <<>>
    THEN [device_type |-> "unknown", device_type_source |-> NoneStr]
    ELSE IF probe[Head(dets)[1]] = "raise"
         THEN [raised |-> "Exception"]
         ELSE IF probe[Head(dets)[1]] = "true"
              THEN [device_type |-> Head(dets)[1],
                    device_type_source |-> "registry"]
              ELSE detect_loop_no_except(Tail(dets), probe)

detect_result_no_except(dets, probe) == detect_loop_no_except(dets, probe)

detect_result(dets, probe) == detect_loop(dets, probe)

(***************************************************************************)
(* Registry specification: registration, reordering and detection in any   *)
(* interleaving.                                                           *)
(***************************************************************************)
register_detector(device_type, detector_func) ==
    /\ detectors' = register_detector_to(detectors, device_type, detector_func)
    /\ op' = [name |-> "register_detector", device_type |-> device_type]
    /\ UNCHANGED <<handlers, scanner>>

reorder_detectors(preferred_order) ==
    /\ detectors' = reordered(detectors, preferred_order)
    /\ op' = [name |-> "reorder_detectors", preferred_order |-> preferred_order,
              before |-> detectors]
    /\ UNCHANGED <<handlers, scanner>>

detect_device_type(probe) ==
    /\ op' = [name |-> "detect_device_type", probe |-> probe,
              result |-> detect_result(detectors, probe),
              after_reorder |-> IF op.name = "reorder_detectors"
                                THEN op.preferred_order ELSE <<>>]
    /\ UNCHANGED <<detectors, handlers, scanner>>

InitRegistry ==
    /\ detectors = <<>>
    /\ handlers = <<>>
    /\ scanner = NoneDict
    /\ op = [name |-> "import"]

NextRegistry ==
    \/ \E t \in RegTypes, f \in DetectorFuncs : register_detector(t, f)
    \/ \E p \in PreferredOrders : reorder_detectors(p)
    \/ \E probe \in [Keys(detectors) -> ProbeOutcomes] : detect_device_type(probe)

SpecRegistry == InitRegistry /\ [][NextRegistry]_vars

(***************************************************************************)
(* The ipaddress module of the standard library, for IPv4 text, as         *)
(* parse_ip_range uses it.  A parse result is [ok |-> TRUE, ...] or        *)
(* [ok |-> FALSE] where the library raises ValueError.                     *)
(***************************************************************************)
Pow2(n) == 2 ^ n

\* A 32-bit address is kept as [hi |-> its first octet, lo |-> its low 24
\* bits]: the checker's integers have 32 bits with a sign.
Addr(hi, lo) == [hi |-> hi, lo |-> lo]

AddrPlus(a, i) ==
    Addr(a.hi + (a.lo + i) \div Pow2(24), (a.lo + i) % Pow2(24))

\* the netmask of a prefix length, and its complement
Netmask(q) ==
    IF q >= 8 THEN Addr(255, Pow2(24) - Pow2(32 - q))
    ELSE Addr(256 - Pow2(8 - q), 0)

Hostmask(q) == Addr(255 - Netmask(q).hi, Pow2(24) - 1 - Netmask(q).lo)

\* address & hostmask(q) = 0
HostBitsClear(a, q) ==
    IF q >= 8 THEN a.lo % Pow2(32 - q) = 0
    ELSE a.lo = 0 /\ a.hi % Pow2(8 - q) = 0

\* IPv4Address._parse_octet: one to three ASCII digits, no leading zero, <= 255
OctetOf(s) ==
    IF /\ IsDigit(s)
       /\ Len(s) <= 3
       /\ ~(Len(s) > 1 /\ CharAt(s, 1) = "0")
       /\ DigitsToInt(s) <= 255
    THEN [ok |-> TRUE, value |-> DigitsToInt(s)]
    ELSE [ok |-> FALSE]

\* ipaddress.ip_address(s): four octets separated by dots
Ip4Of(s) ==
    LET octets == Split(s, ".") IN
    IF Len(octets) = 4 /\ \A i \in 1..4 : OctetOf(octets[i]).ok
    THEN [ok |-> TRUE,
          value |-> Addr(OctetOf(octets[1]).value,
                         (OctetOf(octets[2]).value * 256
                          + OctetOf(octets[3]).value) * 256
                         + OctetOf(octets[4]).value)]
    ELSE [ok |-> FALSE]

\* str(IPv4Address(a))
Ip4Str(a) ==
    ToString(a.hi) \o "." \o ToString(a.lo \div Pow2(16)) \o "."
    \o ToString((a.lo \div Pow2(8)) % 256) \o "." \o ToString(a.lo % 256)

\* IPv4Network._make_netmask: a prefix length, a netmask or a host mask
PrefixOf(s) ==
    IF IsDigit(s)
    THEN IF DigitsToInt(s) <= 32
         THEN [ok |-> TRUE, value |-> DigitsToInt(s)] ELSE [ok |-> FALSE]
    ELSE LET m == Ip4Of(s) IN
         IF ~m.ok THEN [ok |-> FALSE]
         ELSE IF \E q \in 0..32 : m.value = Netmask(q)
              THEN [ok |-> TRUE, value |-> CHOOSE q \in 0..32 : m.value = Netmask(q)]
              ELSE IF \E q \in 0..32 : m.value = Hostmask(q)
                   THEN [ok |-> TRUE,
                         value |-> CHOOSE q \in 0..32 : m.value = Hostmask(q)]
                   ELSE [ok |-> FALSE]

\* ipaddress.ip_network(s), strict: at most one "/", a valid address, a valid
\* prefix, no host bit set
IpNetworkOf(s) ==
    LET parts == Split(s, "/") IN
    IF Len(parts) > 2 THEN [ok |-> FALSE]
    ELSE LET a == Ip4Of(parts[1])
             pfx == IF Len(parts) = 2 THEN PrefixOf(parts[2])
                    ELSE [ok |-> TRUE, value |-> 32]
         IN IF ~a.ok \/ ~pfx.ok THEN [ok |-> FALSE]
            ELSE IF ~HostBitsClear(a.value, pfx.value) THEN [ok |-> FALSE]
                 ELSE [ok |-> TRUE, network_address |-> a.value,
                       prefixlen |-> pfx.value]

\* a hosts() that walks the whole network, as iterating the network does
HostsWholeNetwork(network) ==
    [i \in 1..Pow2(32 - network.prefixlen) |->
        AddrPlus(network.network_address, i - 1)]

\* IPv4Network.hosts(): a /32 yields its address, a /31 both addresses, any
\* other network every address but the first and the last
Hosts(network) ==
    IF network.prefixlen = 32
    THEN <<network.network_address>>
    ELSE IF network.prefixlen = 31
         THEN <<network.network_address, AddrPlus(network.network_address, 1)>>
         ELSE [i \in 1..(Pow2(32 - network.prefixlen) - 2) |->
                   AddrPlus(network.network_address, i)]

(***************************************************************************)
(* SiteScanner.parse_ip_range                                              *)
(***************************************************************************)
\* a loop over range(start_octet, end_octet) that leaves the end out
last_octet_range_end_exclusive(ip_components, start_octet, end_octet) ==
    [i \in 1..(end_octet - start_octet) |->
        ip_components[1] \o "." \o ip_components[2]
        \o "." \o ip_components[3] \o "."
        \o ToString(start_octet + i - 1)]

\* for i in range(start_octet, end_octet + 1): ip_list.append(f"{...}.{i}")
last_octet_range(ip_components, start_octet, end_octet) ==
    [i \in 1..(end_octet - start_octet + 1) |->
        ip_components[1] \o "." \o ip_components[2]
        \o "." \o ip_components[3] \o "."
        \o ToString(start_octet + i - 1)]

\* a single-IP branch that does not validate the text
single_ip_unvalidated(ip_range) == <<ip_range>>

\* ipaddress.ip_address(ip_range); return [ip_range], [] on ValueError
single_ip(ip_range) ==
    IF Ip4Of(ip_range).ok
    THEN <<ip_range>>
    ELSE <<>>                                        \* except ValueError

parse_ip_range(ip_range) ==
    IF Contains(ip_range, "/")
    THEN LET network == IpNetworkOf(ip_range) IN
         IF network.ok
         THEN [i \in DOMAIN Hosts(network) |-> Ip4Str(Hosts(network)[i])]
         ELSE <<>>                                   \* except ValueError
    ELSE IF Contains(ip_range, "-")
    THEN LET ip_parts == Split(ip_range, "-")
             base_ip == Strip(ip_parts[1])
             ip_components == Split(base_ip, ".")
         IN IF Len(ip_components) # 4
            THEN <<>>                                \* ValueError, caught below
            ELSE LET range_end == Strip(ip_parts[2]) IN
                 IF IsDigit(range_end)
                 THEN LET start_octet == IntOf(ip_components[4])
                          end_octet == DigitsToInt(range_end)
                      IN IF ~start_octet.ok
                         THEN <<>>                   \* except Exception
                         ELSE last_octet_range(ip_components,
                                               start_octet.value, end_octet)
                 ELSE <<>>                           \* complex range: not supported
    ELSE single_ip(ip_range)

(***************************************************************************)
(* Range expansion specification: parse_ip_range applied to one range text *)
(* drawn from RangeTexts.                                                  *)
(***************************************************************************)
MaxHostBits == 9

BaseTexts ==
    {"10.0.0.0", "10.0.0.1", "10.0.0.4", "10.0.0.64", "10.0.0.128",
     "10.0.0.255", "10.0.2.0", "10.0.254.0", "192.168.1.0",
     "10.0.0", "10.0.0.256", "10.300.0.1", "010.0.0.0", "10.0.0.+1", ""}

PrefixTexts ==
    {ToString(n) : n \in (32 - MaxHostBits)..33}
    \cup {"", "x", "255.255.255.0", "0.0.0.255", "255.0.255.0"}

RangeEndTexts == {"0", "1", "5", "10", "255", "300", " 3", "abc", ""}

RangeTexts ==
    {b \o "/" \o n : b \in BaseTexts, n \in PrefixTexts}
    \cup {b \o "-" \o e : b \in BaseTexts, e \in RangeEndTexts}
    \cup BaseTexts

call_parse_ip_range ==
    /\ op.name = "range_text"
    /\ op' = [name |-> "parse_ip_range", ip_range |-> op.ip_range,
              result |-> parse_ip_range(op.ip_range)]
    /\ UNCHANGED <<detectors, handlers, scanner>>

InitParse ==
    /\ detectors = <<>>
    /\ handlers = <<>>
    /\ scanner = NoneDict
    /\ op \in {[name |-> "range_text", ip_range |-> t] : t \in RangeTexts}

NextParse == call_parse_ip_range

SpecParse == InitParse /\ [][NextParse]_vars

(***************************************************************************)
(* Result dicts, call outcomes and device responses.                       *)
(*                                                                         *)
(* A result dict is a function from its keys.  What a call does is the     *)
(* value it returns (a dict, or NoneDict for None) or Raised(e, text) when *)
(* an exception of class e, with str(e) = text, leaves it.                 *)
(***************************************************************************)
Put(d, k, v) == [x \in DOMAIN d \cup {k} |-> IF x = k THEN v ELSE d[x]]

Raised(e, text) == [raised |-> e, text |-> text]

IsRaised(out) == "raised" \in DOMAIN out

\* bool(result) of a dict or None
Truthy(result) == result # NoneDict /\ DOMAIN result # {}

\* A JSON document is given by the value json.loads makes of it:
\* [t |-> "object", members |-> function], [t |-> "array", items |-> seq],
\* [t |-> "string", s |-> text], [t |-> "number", n |-> int], [t |-> "null"].
\* A response body is its text; with kind "json" it also names the document
\* json.loads makes of the text, with kind "text" json.loads rejects the text
\* (JSONDecodeError).
JObject(f) == [t |-> "object", members |-> f]
JArray(q) == [t |-> "array", items |-> q]
JString(str) == [t |-> "string", s |-> str]
JNumber(n) == [t |-> "number", n |-> n]
JNull == [t |-> "null"]

JsonBody(str, doc) == [kind |-> "json", text |-> str, value |-> doc]
TextBody(str) == [kind |-> "text", text |-> str]

\* bool(x) of a JSON value
JTruthy(x) ==
    CASE x.t = "null" -> FALSE
      [] x.t = "number" -> x.n # 0
      [] x.t = "string" -> x.s # ""
      [] x.t = "array" -> x.items # <<>>
      [] x.t = "object" -> DOMAIN x.members # {}

\* An HTTP exchange: requests.get raised RequestException, or a response came
HttpFailed(e) == [exc |-> e]
HttpResponse(code, body) == [status_code |-> code, body |-> body]

(***************************************************************************)
(* Regular expressions of the handlers and the registry, matched the way   *)
(* re does: leftmost match, greedy repetitions.                            *)
(***************************************************************************)
UpperChars ==
    {"A", "B", "C", "D", "E", "F", "G", "H", "I", "J", "K", "L", "M", "N",
     "O", "P", "Q", "R", "S", "T", "U", "V", "W", "X", "Y", "Z"}

WordChars ==
    UpperChars \cup DigitChars \cup {"_"}
    \cup {"a", "b", "c", "d", "e", "f", "g", "h", "i", "j", "k", "l", "m",
          "n", "o", "p", "q", "r", "s", "t", "u", "v", "w", "x", "y", "z"}

\* the length of the longest run of characters of set cs that starts at i
RECURSIVE RunLen(_, _, _)
RunLen(s, i, cs) ==
    IF i <= Len(s) /\ At(s, i) \in cs THEN 1 + RunLen(s, i + 1, cs) ELSE 0

\* The pieces of a pattern: a literal text, cs+ (a greedy run of at least one
\* character of cs) and cs{n} (exactly n characters of cs).
Lit(text) == [kind |-> "lit", text |-> text]
Some(cs) == [kind |-> "some", chars |-> cs]
Exactly(n, cs) == [kind |-> "exactly", n |-> n, chars |-> cs]

\* where the text after piece tok, matched at position i, begins; 0 for no match
PieceEnd(s, i, tok) ==
    CASE tok.kind = "lit" ->
             IF Slice(s, i, i + Len(tok.text) - 1) = tok.text
             THEN i + Len(tok.text) ELSE 0
      [] tok.kind = "some" ->
             IF RunLen(s, i, tok.chars) >= 1
             THEN i + RunLen(s, i, tok.chars) ELSE 0
      [] tok.kind = "exactly" ->
             IF RunLen(s, i, tok.chars) >= tok.n THEN i + tok.n ELSE 0

\* The pieces of pattern pat matched one after the other from position i:
\* where each piece ends, with a 0 in the place of the piece that fails.
RECURSIVE MatchFrom(_, _, _)
MatchFrom(s, i, pat) ==
    IF pat = <<>> THEN <<>>
    ELSE IF PieceEnd(s, i, Head(pat)) = 0 THEN <<0>>
    ELSE <<PieceEnd(s, i, Head(pat))>>
             \o MatchFrom(s, PieceEnd(s, i, Head(pat)), Tail(pat))

Matched(ends, pat) == Len(ends) = Len(pat) /\ ends[Len(ends)] # 0

\* the least position of s at which pat matches, 0 for none (re.search)
SearchStart(s, pat) ==
    LET starts == {i \in 1..Len(s) : Matched(MatchFrom(s, i, pat), pat)} IN
    IF starts = {} THEN 0
    ELSE CHOOSE i \in starts : \A j \in starts : i <= j

\* r'Antminer\s+([A-Z]\d+[\+]*)' up to the digits
ModelPattern ==
    <<Lit("Antminer"), Some(Whitespace), Exactly(1, UpperChars), Some(DigitChars)>>

\* re.search(r'Antminer\s+([A-Z]\d+[\+]*)', s): group 1, or "" for no match
ModelNumber(s) ==
    IF SearchStart(s, ModelPattern) = 0 THEN ""
    ELSE LET ends == MatchFrom(s, SearchStart(s, ModelPattern), ModelPattern)
         IN Slice(s, ends[2], ends[4] + RunLen(s, ends[4], {"+"}) - 1)

\* r"(\d{4}-\d{2}-\d{2})\s+(\d{2}:\d{2}:\d{2})\s+(.*)" up to the message
TimestampPattern ==
    <<Exactly(4, DigitChars), Lit("-"), Exactly(2, DigitChars), Lit("-"),
      Exactly(2, DigitChars), Some(Whitespace),
      Exactly(2, DigitChars), Lit(":"), Exactly(2, DigitChars), Lit(":"),
      Exactly(2, DigitChars), Some(Whitespace)>>

\* re.search of that pattern in a line: <<date, time, message>>, or <<>>
TimestampSearch(s) ==
    IF SearchStart(s, TimestampPattern) = 0 THEN <<>>
    ELSE LET ends == MatchFrom(s, SearchStart(s, TimestampPattern),
                               TimestampPattern)
         IN <<Slice(s, ends[5] - 10, ends[5] - 1),
              Slice(s, ends[6], ends[11] - 1),
              Slice(s, ends[12], Len(s))>>

(***************************************************************************)
(* DeviceRegistry.normalize_device_type                                    *)
(***************************************************************************)
normalize_device_type(device_type) ==
    IF device_type = "unknown" THEN "unknown"
    ELSE IF Contains(device_type, "Z15j") THEN "Z15j"
    ELSE IF Contains(device_type, "Z15") THEN "Z15"
    ELSE IF Contains(device_type, "T21") THEN "T21"
    ELSE IF Contains(device_type, "S21 Pro") \/ Contains(device_type, "S21Pro")
         THEN "S21 Pro"
    ELSE IF Contains(device_type, "S21+") THEN "S21+"
    ELSE IF ModelNumber(device_type) # ""
         THEN ModelNumber(device_type)
         ELSE device_type

(***************************************************************************)
(* Python's operators on the values json.loads returns                     *)
(***************************************************************************)
\* a value put into a result dict: a str as the text it is
PyValue(x) == IF x.t = "string" THEN x.s ELSE x

\* the types on which "k in x" is defined; on the others it raises TypeError
HasMembership(x) == x.t \in {"object", "array", "string"}

\* k in x, for a string k
PyIn(k, x) ==
    CASE x.t = "object" -> k \in DOMAIN x.members
      [] x.t = "string" -> Contains(x.s, k)
      [] x.t = "array" -> \E i \in DOMAIN x.items : x.items[i] = JString(k)

\* the types on which len(x) is defined
HasLen(x) == x.t \in {"object", "array", "string"}

PyLen(x) ==
    CASE x.t = "object" -> Cardinality(DOMAIN x.members)
      [] x.t = "string" -> Len(x.s)
      [] x.t = "array" -> Len(x.items)

\* int(x): [ok |-> TRUE, value |-> n], or [ok |-> FALSE] for ValueError/TypeError
PyInt(x) ==
    CASE x.t = "number" -> [ok |-> TRUE, value |-> x.n]
      [] x.t = "string" -> IntOf(x.s)
      [] OTHER -> [ok |-> FALSE]

\* type(x).__name__
TypeName(x) ==
    CASE x.t = "null" -> "NoneType"
      [] x.t = "number" -> "int"
      [] x.t = "string" -> "str"
      [] x.t = "array" -> "list"
      [] x.t = "object" -> "dict"

\* str(e) of the AttributeError that x.attr raises
NoAttributeText(x, attr) ==
    "'" \o TypeName(x) \o "' object has no attribute '" \o attr \o "'"

\* str(e) of the TypeError that x["k"] raises on a str or a list
BadIndexText(x) ==
    IF x.t = "string" THEN "string indices must be integers, not 'str'"
    ELSE "list indices must be integers or slices, not str"

\* str(e) of the TypeError that "k in x" raises
NotIterableText(x) ==
    "argument of type '" \o TypeName(x) \o "' is not iterable"

(***************************************************************************)
(* Z15Handler: HTTP CGI, JSON log                                          *)
(***************************************************************************)
Z15_parse_logs(body) ==
    IF body.kind # "json"
    THEN \* except json.JSONDecodeError: the last line of the text
         LET lines == Split(Strip(body.text), "\n")
             last_line == lines[Len(lines)]
         IN [ip |-> "", status |-> "success", source |-> "Z15-text",
             message |-> last_line, raw_log |-> last_line]
    ELSE LET log_data == body.value IN
         IF ~HasMembership(log_data)
         THEN Raised("TypeError", NotIterableText(log_data))   \* "log" in log_data
         ELSE IF ~PyIn("log", log_data)
         THEN NoneDict                                 \* falls off the end
         ELSE IF log_data.t # "object"
         THEN Raised("TypeError", BadIndexText(log_data))      \* log_data["log"]
         ELSE LET log == log_data.members["log"] IN
              IF JTruthy(log)
              THEN IF log.t = "string"
                   THEN [ip |-> "", status |-> "success", source |-> "Z15",
                         message |-> Strip(log.s), raw_log |-> log.s]
                   ELSE Raised("AttributeError", NoAttributeText(log, "strip"))
              ELSE [ip |-> "", status |-> "success", source |-> "Z15",
                    message |-> "No log message", raw_log |-> PyValue(log)]

Z15_fetch_logs(ip, response) ==
    IF "exc" \in DOMAIN response
    THEN [ip |-> ip, status |-> "error",
          message |-> "Request exception for Z15 logs: " \o response.exc]
    ELSE IF response.status_code = 200
         THEN Z15_parse_logs(response.body)
         ELSE [ip |-> ip, status |-> "error",
               error_code |-> response.status_code,
               message |-> "Failed to fetch Z15 logs. Status code: "
                           \o ToString(response.status_code)]

(***************************************************************************)
(* DG1Handler: HTTP CGI, plain-text log                                    *)
(***************************************************************************)
LastTen(q) == IF Len(q) > 10 THEN SubSeq(q, Len(q) - 9, Len(q)) ELSE q

DG1_parse_logs(log_content, ip) ==
    LET log_lines == Split(Strip(log_content), "\n")
        last_log_line == log_lines[Len(log_lines)]
        timestamp_match == TimestampSearch(last_log_line)
    IN [ip |-> ip, status |-> "success", device_type |-> "DG1+",
        device_type_source |-> "detected",
        date |-> IF timestamp_match # <<>> THEN timestamp_match[1] ELSE "",
        time |-> IF timestamp_match # <<>> THEN timestamp_match[2] ELSE "",
        message |-> IF timestamp_match # <<>> THEN timestamp_match[3]
                    ELSE last_log_line,
        raw_log |-> last_log_line,
        logs |-> LastTen(log_lines)]

DG1_fetch_logs(ip, response) ==
    IF "exc" \in DOMAIN response
    THEN [ip |-> ip, status |-> "error",
          message |-> "Request exception for DG1+ logs: " \o response.exc]
    ELSE IF response.status_code = 200
         THEN DG1_parse_logs(response.body.text, ip)
         ELSE [ip |-> ip, status |-> "error",
               error_code |-> response.status_code,
               message |-> "Failed to fetch DG1+ logs. Status code: "
                           \o ToString(response.status_code)]

(***************************************************************************)
(* SocketBasedHandler                                                      *)
(*                                                                         *)
(* A socket exchange is [fail |-> "timeout" | "refused" | "oserror"] or    *)
(* [data |-> body]; besides the JSON and text bodies, a body of kind       *)
(* "unseparated" is the text of document `value` with the commas between   *)
(* adjacent objects left out ("...}{..."), which json.loads rejects.       *)
(***************************************************************************)
UnseparatedBody(str, doc) == [kind |-> "unseparated", text |-> str, value |-> doc]

SocketFailed(e) == [fail |-> e]
SocketData(body) == [data |-> body]

\* the except clauses around the connection, common to both implementations
socket_error(exchange) ==
    CASE exchange.fail = "timeout" -> JObject([error |-> JString("Connection timed out")])
      [] exchange.fail = "refused" -> JObject([error |-> JString("Connection refused")])
      [] OTHER -> JObject([error |-> JString("Error: " \o exchange.fail)])

\* SocketBasedHandler.send_socket_command, of handler class class_name.
\* JSONDecodeError leads to self.fix_malformed_json, which no class defines:
\* the AttributeError is caught by the enclosing except Exception.
send_socket_command(class_name, exchange) ==
    IF "fail" \in DOMAIN exchange
    THEN socket_error(exchange)
    ELSE IF exchange.data.kind = "json"
         THEN exchange.data.value
         ELSE JObject([error |-> JString("JSON parsing error: '" \o class_name
                                  \o "' object has no attribute 'fix_malformed_json'"),
                       raw |-> JString(exchange.data.text)])

\* stats["STATS"][0].get("Type", None); every exception gives None (JNull)
get_device_type_from_stats(stats) ==
    IF stats.t = "object" /\ "STATS" \in DOMAIN stats.members
    THEN LET S == stats.members["STATS"] IN
         IF /\ S.t = "array" /\ Len(S.items) >= 1
            /\ S.items[1].t = "object"
            /\ "Type" \in DOMAIN S.items[1].members
         THEN S.items[1].members["Type"]
         ELSE JNull
    ELSE JNull

FanKey(i) == "fan" \o ToString(i)

\* The result triple of extract_fan_status as a record:
\* failed_fans, fan_data (fan key -> value), error (NoneStr for None).
FanStatus(failed_fans, fan_data, error) ==
    [failed_fans |-> failed_fans, fan_data |-> fan_data, error |-> error]

NoFanData == [k \in {} |-> JNull]

extract_fan_status(stats) ==
    IF ~HasMembership(stats)
    THEN FanStatus(0, NoFanData,
                   "Error parsing fan status: " \o NotIterableText(stats))
    ELSE IF PyIn("error", stats)
    THEN \* the "error" member of a response is a string
         CASE stats.t = "object" /\ stats.members["error"].t = "string" ->
                  FanStatus(0, NoFanData, stats.members["error"].s)
           [] stats.t # "object" ->
                  FanStatus(0, NoFanData,
                            "Error parsing fan status: " \o BadIndexText(stats))
    ELSE IF ~PyIn("STATS", stats)
    THEN FanStatus(0, NoFanData, "No fan data found in stats response")
    ELSE IF stats.t # "object"
    THEN FanStatus(0, NoFanData,
                   "Error parsing fan status: " \o BadIndexText(stats))
    ELSE LET S == stats.members["STATS"] IN
         IF ~HasLen(S)
         THEN FanStatus(0, NoFanData, "Error parsing fan status: no len()")
         ELSE IF PyLen(S) < 2
         THEN FanStatus(0, NoFanData, "No fan data found in stats response")
         ELSE IF S.t = "object"
         THEN FanStatus(0, NoFanData, "Error parsing fan status: 1")   \* KeyError
         ELSE LET stats_data == IF S.t = "array" THEN S.items[2]
                                ELSE JString(At(S.s, 2)) IN
              IF ~HasMembership(stats_data)
              THEN FanStatus(0, NoFanData, "Error parsing fan status: "
                                           \o NotIterableText(stats_data))
              ELSE IF ~PyIn("fan_num", stats_data)
              THEN FanStatus(0, NoFanData, "No fan data found in stats response")
              ELSE IF stats_data.t # "object"
              THEN FanStatus(0, NoFanData,
                             "Error parsing fan status: no attribute 'get'")
              ELSE LET fan_num == stats_data.members["fan_num"] IN
                   IF fan_num.t # "number"
                   THEN FanStatus(0, NoFanData,
                                  "Error parsing fan status: not an integer")
                   ELSE LET present == {i \in 1..fan_num.n :
                                           FanKey(i) \in DOMAIN stats_data.members}
                            fan_data == [k \in {FanKey(i) : i \in present}
                                            |-> stats_data.members[k]]
                            failed == {i \in present :
                                          stats_data.members[FanKey(i)] = JNumber(0)}
                        IN FanStatus(Cardinality(failed), fan_data, NoneStr)

get_default_fan_message(failed_fans) ==
    IF failed_fans > 0
    THEN "No " \o ToString(failed_fans) \o " Fan find"
    ELSE ""

(***************************************************************************)
(* S21Handler and S19jProHandler: the same fetch_logs, under device_type   *)
(* "S21+" and "S19j Pro"                                                   *)
(***************************************************************************)
socket_fetch_logs(class_name, device_type, ip, exchange) ==
    LET result == [ip |-> ip, status |-> "success", device_type |-> device_type,
                   device_type_source |-> "registry"]
        failure(text) ==
            [result EXCEPT !.status = "error"]
                @@ [message |-> "Error fetching fan status: " \o text,
                    error_type |-> "unknown_error"]
        stats == send_socket_command(class_name, exchange)
    IN IF ~HasMembership(stats)
       THEN failure(NotIterableText(stats))
       ELSE IF PyIn("error", stats)
       THEN \* raise Exception(stats["error"]); the member is a string
            CASE stats.t = "object" /\ stats.members["error"].t = "string" ->
                     failure(stats.members["error"].s)
              [] stats.t # "object" -> failure(BadIndexText(stats))
       ELSE LET miner_type == get_device_type_from_stats(stats)
                typed == IF JTruthy(miner_type)
                         THEN result @@ [miner_type |-> PyValue(miner_type)]
                         ELSE result
                fans == extract_fan_status(stats)
            IN IF fans.error # NoneStr /\ fans.error # ""
               THEN [typed EXCEPT !.status = "error"]
                        @@ [message |-> fans.error,
                            error_type |-> "fan_data_error"]
               ELSE IF fans.failed_fans > 0
               THEN typed @@ [message |-> get_default_fan_message(fans.failed_fans),
                              fan_data |-> fans.fan_data]
               ELSE typed @@ [message |-> "", ignore_success |-> TRUE,
                              fan_data |-> fans.fan_data]

S21_fetch_logs(ip, exchange) ==
    socket_fetch_logs("S21Handler", "S21+", ip, exchange)

S19jPro_fetch_logs(ip, exchange) ==
    socket_fetch_logs("S19jProHandler", "S19j Pro", ip, exchange)

(***************************************************************************)
(* Z15jHandler: socket API with its own JSON repair, HTTP log as fallback  *)
(***************************************************************************)
LowerChar(c) ==
    CASE c = "A" -> "a" [] c = "B" -> "b" [] c = "C" -> "c" [] c = "D" -> "d"
      [] c = "E" -> "e" [] c = "F" -> "f" [] c = "G" -> "g" [] c = "H" -> "h"
      [] c = "I" -> "i" [] c = "J" -> "j" [] c = "K" -> "k" [] c = "L" -> "l"
      [] c = "M" -> "m" [] c = "N" -> "n" [] c = "O" -> "o" [] c = "P" -> "p"
      [] c = "Q" -> "q" [] c = "R" -> "r" [] c = "S" -> "s" [] c = "T" -> "t"
      [] c = "U" -> "u" [] c = "V" -> "v" [] c = "W" -> "w" [] c = "X" -> "x"
      [] c = "Y" -> "y" [] c = "Z" -> "z" [] OTHER -> c

RECURSIVE Lower(_)
Lower(s) == IF s = "" THEN "" ELSE LowerChar(At(s, 1)) \o Lower(Tail(s))

\* _fix_z15j_json followed by json.loads: re.sub(r'(\})(\{)', r'\1,\2', ...)
\* puts the missing commas back, so an "unseparated" text parses to its
\* document; a JSON text without "}{" is parsed as it is; any other text is
\* rejected.  Z15j_parse_response below is the same on the text itself.
Z15j_send_socket_command(exchange) ==
    IF "fail" \in DOMAIN exchange
    THEN socket_error(exchange)
    ELSE IF exchange.data.kind \in {"json", "unseparated"}
         THEN exchange.data.value
         ELSE JObject([error |-> JString("Invalid JSON response: Expecting value"),
                       raw |-> JString(exchange.data.text)])

\* r'No\s+\d+\s+Fan\s+find,\s+check\s+again'
FanFindPattern ==
    <<Lit("No"), Some(Whitespace), Some(DigitChars), Some(Whitespace),
      Lit("Fan"), Some(Whitespace), Lit("find,"), Some(Whitespace),
      Lit("check"), Some(Whitespace), Lit("again")>>

\* group 1 of re.search(r'(?:.*cgminer\[\d+\]:\s*)?(No\s+\d+\s+Fan\s+find,
\* \s+check\s+again)', line), for a line with at most one such message;
\* "" for no match
FanFindMessage(line) ==
    IF SearchStart(line, FanFindPattern) = 0 THEN ""
    ELSE LET ends == MatchFrom(line, SearchStart(line, FanFindPattern),
                               FanFindPattern)
         IN Slice(line, SearchStart(line, FanFindPattern), ends[11] - 1)

\* the last of the line numbers hits, 0 for none ("for line in reversed(lines)")
LastLine(hits) ==
    IF hits = {} THEN 0 ELSE CHOOSE i \in hits : \A j \in hits : j <= i

Z15j_parse_http_log(body) ==
    IF body.kind # "json"
    THEN LET log_content == body.text
             lines == Split(Strip(log_content), "\n")
             IsFanLine(line) == /\ Contains(Lower(line), "no")
                                /\ Contains(Lower(line), "fan find")
             IsKernelLine(line) == \/ Contains(Lower(line), "kernel")
                                   \/ Contains(Lower(line), "error")
             fan_line == LastLine({i \in DOMAIN lines : IsFanLine(lines[i])})
             kernel_line ==
                 LastLine({i \in DOMAIN lines : IsKernelLine(lines[i])})
         IN IF fan_line > 0
            THEN [status |-> "error", source |-> "Z15j-http-text",
                  message |-> IF FanFindMessage(lines[fan_line]) # ""
                              THEN FanFindMessage(lines[fan_line])
                              ELSE lines[fan_line],
                  raw_log |-> log_content]
            ELSE IF kernel_line > 0
            THEN [status |-> "error", source |-> "Z15j-http-text",
                  message |-> lines[kernel_line], raw_log |-> log_content]
            ELSE [status |-> "success", source |-> "Z15j-http-text",
                  message |-> lines[Len(lines)], raw_log |-> log_content]
    ELSE LET log_data == body.value IN
         IF ~HasMembership(log_data)
         THEN Raised("TypeError", NotIterableText(log_data))   \* "log" in log_data
         ELSE IF ~PyIn("log", log_data)
         THEN NoneDict                                 \* falls off the end
         ELSE IF log_data.t # "object"
         THEN Raised("TypeError", BadIndexText(log_data))      \* log_data["log"]
         ELSE LET log == log_data.members["log"] IN
              IF JTruthy(log)
              THEN IF log.t = "string"
                   THEN [status |-> "success", source |-> "Z15j-http",
                         message |-> Strip(log.s), raw_log |-> log.s]
                   ELSE Raised("AttributeError", NoAttributeText(log, "strip"))
              ELSE [status |-> "success", source |-> "Z15j-http",
                    message |-> "No log message", raw_log |-> PyValue(log)]

Z15j_http_error(text) ==
    [status |-> "error", message |-> "HTTP Connection Error: " \o text,
     device_type |-> "Z15j", device_type_source |-> "http_fallback",
     error_type |-> "connection_error"]

Z15j_fetch_logs_via_http(ip, response, ignore_success) ==
    IF "exc" \in DOMAIN response
    THEN Z15j_http_error(response.exc)
    ELSE IF response.status_code # 200
    THEN [status |-> "error",
          message |-> "HTTP Error: " \o ToString(response.status_code),
          device_type |-> "Z15j", device_type_source |-> "http_fallback",
          error_type |-> "http_error"]
    ELSE LET parsed == Z15j_parse_http_log(response.body) IN
         IF IsRaised(parsed)
         THEN Z15j_http_error(parsed.text)
         ELSE IF parsed = NoneDict
         THEN \* log_data["ip"] = ip on None
              Z15j_http_error("'NoneType' object does not support item assignment")
         ELSE LET log_data == [ip |-> ip, device_type |-> "Z15j",
                               device_type_source |-> "http_fallback"] @@ parsed
              IN IF ignore_success
                    /\ (log_data.message = ""
                        \/ Contains(Lower(log_data.status), "success"))
                 THEN [log_data EXCEPT !.status = "ok", !.message = ""]
                 ELSE log_data

\* extract_z15j_fan_status, on the second object of STATS
extract_z15j_fan_status(stats) ==
    IF ~HasMembership(stats)
    THEN FanStatus(0, NoFanData,
                   "Error parsing Z15j fan status: " \o NotIterableText(stats))
    ELSE IF PyIn("error", stats)
    THEN \* the "error" member of a response is a string
         CASE stats.t = "object" /\ stats.members["error"].t = "string" ->
                  FanStatus(0, NoFanData, stats.members["error"].s)
           [] stats.t # "object" ->
                  FanStatus(0, NoFanData,
                            "Error parsing Z15j fan status: " \o BadIndexText(stats))
    ELSE IF ~PyIn("fan_num", stats)
    THEN FanStatus(0, NoFanData, "No fan data found in Z15j stats response")
    ELSE IF stats.t # "object"
    THEN FanStatus(0, NoFanData,
                   "Error parsing Z15j fan status: no attribute 'get'")
    ELSE LET expected_fans == PyInt(stats.members["fan_num"])
             present == {i \in 1..6 : FanKey(i) \in DOMAIN stats.members}
             rpm(i) == PyInt(stats.members[FanKey(i)])
         IN IF ~expected_fans.ok \/ \E i \in present : ~rpm(i).ok
            THEN FanStatus(0, NoFanData,
                           "Error parsing Z15j fan status: invalid literal for int()")
            ELSE LET fan_data == [k \in {FanKey(i) : i \in present}
                                     |-> JNumber(PyInt(stats.members[k]).value)]
                     working_fans ==
                         Cardinality({i \in present : rpm(i).value > 0})
                 IN FanStatus(IF working_fans < expected_fans.value
                              THEN expected_fans.value - working_fans
                              ELSE 0,
                              fan_data, NoneStr)

\* The return statements of the try of fetch_logs after the fan status was
\* extracted; expected_fans is int(stats.get("fan_num", 0)), read from the
\* top-level response.  UseHttp when int() raised.
UseHttp == [py |-> "_fetch_logs_via_http"]

Z15j_fan_result(device_type, device_type_source, fans, expected_fans) ==
    IF fans.error # NoneStr /\ fans.error # ""
    THEN [status |-> "error",
          message |-> "Error fetching fan status: " \o fans.error,
          device_type |-> device_type,
          device_type_source |-> device_type_source,
          error_type |-> "device_error"]
    ELSE IF ~expected_fans.ok
    THEN UseHttp
    ELSE IF Cardinality({k \in DOMAIN fans.fan_data : fans.fan_data[k].n > 0})
                >= expected_fans.value
    THEN [status |-> "ok", message |-> "",
          device_type |-> device_type,
          device_type_source |-> device_type_source,
          fan_data |-> fans.fan_data]
    ELSE [status |-> "error",
          message |-> "No "
              \o ToString(expected_fans.value
                     - Cardinality({k \in DOMAIN fans.fan_data :
                                       fans.fan_data[k].n > 0}))
              \o " Fan find, check again",
          device_type |-> device_type,
          device_type_source |-> device_type_source,
          error_type |-> "device_error",
          fan_data |-> fans.fan_data]

\* The try of fetch_logs on the response stats: its result, or UseHttp when
\* the response has no two STATS objects or something is raised.
Z15j_socket_result(stats) ==
    IF ~(JTruthy(stats) /\ HasMembership(stats) /\ PyIn("STATS", stats))
    THEN UseHttp
    ELSE IF stats.t # "object"
    THEN UseHttp                                       \* stats["STATS"]
    ELSE IF ~HasLen(stats.members["STATS"]) THEN UseHttp
    ELSE IF PyLen(stats.members["STATS"]) <= 1 THEN UseHttp
    ELSE IF stats.members["STATS"].t = "object" THEN UseHttp   \* KeyError: 1
    ELSE Z15j_fan_result(
             IF JTruthy(get_device_type_from_stats(stats))
             THEN PyValue(get_device_type_from_stats(stats))
             ELSE "Z15j",
             IF JTruthy(get_device_type_from_stats(stats))
             THEN "api" ELSE "registry",
             extract_z15j_fan_status(
                 IF stats.members["STATS"].t = "array"
                 THEN stats.members["STATS"].items[2]
                 ELSE JString(At(stats.members["STATS"].s, 2))),
             IF "fan_num" \in DOMAIN stats.members
             THEN PyInt(stats.members["fan_num"])
             ELSE [ok |-> TRUE, value |-> 0])

\* the failure of the socket path reported without the HTTP attempt
Z15j_socket_only(socket_result, http_result) ==
    IF socket_result = UseHttp
    THEN [status |-> "error", message |-> "Invalid response from socket API",
          device_type |-> "Z15j", device_type_source |-> "registry",
          error_type |-> "device_error"]
    ELSE socket_result

\* except Exception, and the else of the if: the HTTP fallback
Z15j_or_http(socket_result, http_result) ==
    IF socket_result = UseHttp THEN http_result ELSE socket_result

\* Z15jHandler.fetch_logs(ip): ignore_success keeps its default, True
Z15j_fetch_logs(ip, exchange, response) ==
    Z15j_or_http(Z15j_socket_result(Z15j_send_socket_command(exchange)),
                 Z15j_fetch_logs_via_http(ip, response, TRUE))

(***************************************************************************)
(* T21Handler: one message from the log WebSocket                          *)
(*                                                                         *)
(* A WebSocket session is [connect |-> "error"] or                         *)
(* [connect |-> "ok", recv |-> "timeout" | "error" | "bytes"] or           *)
(* [connect |-> "ok", recv |-> "text", message |-> the text received].     *)
(***************************************************************************)
\* r'\[(\d{4}/\d{2}/\d{2}\s+\d{2}:\d{2}:\d{2})\]\s+(\w+):\s+(.+)' up to the
\* message
T21LogPattern ==
    <<Lit("["), Exactly(4, DigitChars), Lit("/"), Exactly(2, DigitChars),
      Lit("/"), Exactly(2, DigitChars), Some(Whitespace),
      Exactly(2, DigitChars), Lit(":"), Exactly(2, DigitChars), Lit(":"),
      Exactly(2, DigitChars), Lit("]"), Some(Whitespace), Some(WordChars),
      Lit(":"), Some(Whitespace)>>

\* re.match of that pattern on a line: the log entry, or NoneDict for no match.
\* When nothing follows the last blanks, (.+) takes the last of them if there
\* are two at least.
T21_log_match(line) ==
    LET ends == MatchFrom(line, 1, T21LogPattern) IN
    IF Matched(ends, T21LogPattern)
       /\ (ends[17] <= Len(line) \/ ends[17] - ends[16] >= 2)
    THEN [timestamp |-> Slice(line, 2, ends[12] - 1),
          level |-> Slice(line, ends[14], ends[15] - 1),
          message |-> IF ends[17] <= Len(line)
                      THEN Slice(line, ends[17], Len(line))
                      ELSE Slice(line, Len(line), Len(line))]
    ELSE NoneDict

\* the code point of a character of a timestamp
CodePoint(c) ==
    CASE c = "\t" -> 9 [] c = "\n" -> 10 [] c = "\r" -> 13 [] c = " " -> 32
      [] c = "/" -> 47 [] c = ":" -> 58
      [] OTHER -> 48 + DigitValue(c)

\* a < b for two timestamps, as Python compares strings
RECURSIVE StrLess(_, _)
StrLess(a, b) ==
    IF b = "" THEN FALSE
    ELSE IF a = "" THEN TRUE
    ELSE IF At(a, 1) = At(b, 1) THEN StrLess(Tail(a), Tail(b))
    ELSE CodePoint(At(a, 1)) < CodePoint(At(b, 1))

\* list.sort(key=lambda log: log['timestamp']): a stable sort
RECURSIVE InsertByTimestamp(_, _)
InsertByTimestamp(sorted, log) ==
    IF sorted = <<>> THEN <<log>>
    ELSE IF StrLess(log.timestamp, sorted[Len(sorted)].timestamp)
         THEN InsertByTimestamp(SubSeq(sorted, 1, Len(sorted) - 1), log)
                  \o <<sorted[Len(sorted)]>>
         ELSE sorted \o <<log>>

\* the entries left in the order of arrival
keep_arrival_order(logs) == logs

RECURSIVE SortByTimestamp(_)
SortByTimestamp(logs) ==
    IF logs = <<>> THEN <<>>
    ELSE InsertByTimestamp(SortByTimestamp(SubSeq(logs, 1, Len(logs) - 1)),
                           logs[Len(logs)])

\* the first and second field of str.split() on a timestamp
FirstField(s) == Slice(s, 1, 10)
SecondField(s) == Slice(s, Len(s) - 7, Len(s))

\* a fallback that reports the time-out instead
T21_fallback_timed_out(ip) ==
    [ip |-> ip, status |-> "error", device_type |-> "T21",
     device_type_source |-> "registry",
     message |-> "No messages received from WebSocket within timeout",
     error_type |-> "connection_error"]

T21_fallback_get_logs(ip) ==
    [ip |-> ip, status |-> "error", device_type |-> "T21",
     device_type_source |-> "registry",
     message |-> "Could not connect to logs WebSocket endpoint",
     error_type |-> "connection_error"]

\* fetch_logs_async: the entries of the one message received
T21_valid_logs(session) ==
    IF session.connect = "ok" /\ session.recv = "text"
    THEN LET log_lines == Split(session.message, "\n")
             candidates ==
                 SelectSeq(log_lines,
                           LAMBDA line : /\ Strip(line) # ""
                                         /\ At(Strip(line), 1) = "["
                                         /\ Contains(line, "]")
                                         /\ T21_log_match(line) # NoneDict)
         IN [i \in DOMAIN candidates |-> T21_log_match(candidates[i])]
    ELSE <<>>

\* fetch_logs_via_websocket after the connection was used: logs are the
\* entries fetch_logs_async returned; package is the WebSocket package the
\* import found: "websockets", else "websocket-client", else "none"
T21_websocket_result(ip, package, logs) ==
    LET result == [ip |-> ip, status |-> "success", device_type |-> "T21",
                   device_type_source |-> "registry"]
    IN IF package = "websockets"
       THEN LET valid_logs == SortByTimestamp(logs) IN
            IF valid_logs = <<>>
            THEN T21_fallback_get_logs(ip)
            ELSE LET last_log == valid_logs[Len(valid_logs)] IN
                 result @@ [message |-> last_log.message,
                            time |-> SecondField(last_log.timestamp),
                            date |-> FirstField(last_log.timestamp),
                            level |-> last_log.level,
                            logs |-> LastTen(valid_logs)]
       ELSE \* websocket-client: with log messages the filter reads the
            \* undefined name `today`, and the NameError is caught by the
            \* except Exception that returns the fallback; without any the
            \* fallback is returned directly; with no package likewise
            T21_fallback_get_logs(ip)

T21_fetch_logs_via_websocket(ip, package, session) ==
    T21_websocket_result(ip, package, T21_valid_logs(session))

\* fetch_logs: result["device_type"] = "T21", ["device_type_source"] = "registry"
T21_tagged(result) ==
    [result EXCEPT !.device_type = "T21", !.device_type_source = "registry"]

T21_fetch_logs(ip, package, session) ==
    T21_tagged(T21_fetch_logs_via_websocket(ip, package, session))

(***************************************************************************)
(* The handler modules and DeviceManager.fetch_logs_from_device            *)
(*                                                                         *)
(* A device is what answers at an address: the exchange on the log CGI the *)
(* handler asks, the exchange on the socket API and the session on the log *)
(* WebSocket.                                                              *)
(***************************************************************************)
Device(http, socket, websocket) ==
    [http |-> http, socket |-> socket, websocket |-> websocket]

\* the WebSocket package the import of t21_handler found
WebSocketPackages == {"websockets", "websocket-client", "none"}

\* The handler modules in the order site_scanner imports them, each with the
\* device type it registers its handler class and its detector under.
\* (handlers/s21_pro_handler.py is not among the sources.)
HandlerModules ==
    << <<"T21", "T21Handler">>, <<"S21+", "S21Handler">>,
       <<"Z15j", "Z15jHandler">>, <<"Z15", "Z15Handler">>,
       <<"S19j Pro", "S19jProHandler">>, <<"DG1+", "DG1Handler">> >>

register_handler_to(hs, device_type, handler_class) ==
    SetItem(hs, device_type, handler_class)

\* handler_class(scanner, model_config).fetch_logs(ip): the handlers take
\* DeviceHandler.__init__, which does not raise
handler_fetch_logs(handler_class, ip, device, package) ==
    CASE handler_class = "T21Handler" ->
             T21_fetch_logs(ip, package, device.websocket)
      [] handler_class = "S21Handler" -> S21_fetch_logs(ip, device.socket)
      [] handler_class = "Z15jHandler" ->
             Z15j_fetch_logs(ip, device.socket, device.http)
      [] handler_class = "Z15Handler" -> Z15_fetch_logs(ip, device.http)
      [] handler_class = "S19jProHandler" ->
             S19jPro_fetch_logs(ip, device.socket)
      [] handler_class = "DG1Handler" -> DG1_fetch_logs(ip, device.http)

\* The model_config lookup, first statement of the try: site_config is the
\* dict json.load made of the configuration file, its "models" member a JSON
\* value.  NoneStr when the lookup succeeds, else str(e) of the AttributeError
\* that .get raises on a member that is no object.
model_config_error(site_config) ==
    IF "models" \in DOMAIN site_config /\ site_config.models.t # "object"
    THEN NoAttributeText(site_config.models, "get")
    ELSE NoneStr

\* what the body of the try does: the handler's outcome, or what was raised
\* before the handler was made
try_handler(handler_class, site_config, ip, device, package) ==
    IF model_config_error(site_config) # NoneStr
    THEN Raised("AttributeError", model_config_error(site_config))
    ELSE handler_fetch_logs(handler_class, ip, device, package)

\* fetch_logs_from_device up to its except clause
fetch_logs_unguarded(hs, site_config, ip, device_type, device, package) ==
    IF HasKey(hs, device_type)
    THEN try_handler(Get(hs, device_type), site_config, ip, device, package)
    ELSE [ip |-> ip, status |-> "error",
          message |-> "No handler registered for device type: " \o device_type]

\* except Exception as e: the error result in place of what was raised
except_exception(ip, device_type, outcome) ==
    IF IsRaised(outcome)
    THEN [ip |-> ip, status |-> "error",
          message |-> "Error using " \o device_type \o " handler: "
                      \o outcome.text]
    ELSE outcome

\* a fetch_logs_from_device without its except clause
fetch_logs_result_no_except(hs, site_config, ip, device_type, device, package) ==
    fetch_logs_unguarded(hs, site_config, ip, device_type, device, package)

fetch_logs_result(hs, site_config, ip, device_type, device, package) ==
    except_exception(ip, device_type,
        fetch_logs_unguarded(hs, site_config, ip, device_type, device, package))

(***************************************************************************)
(* Devices, configurations and arguments of the fetch operations           *)
(***************************************************************************)
NoMembers == [k \in {} |-> JNull]

HttpRefused == HttpFailed("Connection refused")
SocketRefused == SocketFailed("refused")
NoWebSocket == [connect |-> "error"]

LogBody(log) == JsonBody("{\"log\": ...}", JObject([log |-> log]))

\* the stats response of a miner of the given type with the given fans
StatsDoc(type, fans) ==
    JObject([STATS |-> JArray(<<JObject([Type |-> JString(type)]), JObject(fans)>>)])

HttpDevice(response) == Device(response, SocketRefused, NoWebSocket)
SocketDevice(exchange) == Device(HttpRefused, exchange, NoWebSocket)
WebSocketDevice(session) == Device(HttpRefused, SocketRefused, session)

Devices ==
    { \* log CGI: a fan message, an empty log, no "log" member, a number,
      \* a login page, an HTTP error, no answer
      HttpDevice(HttpResponse(200,
          LogBody(JString("Jan 1 cgminer[1]: No 2 Fan find, check again\n")))),
      HttpDevice(HttpResponse(200, LogBody(JString("")))),
      HttpDevice(HttpResponse(200, JsonBody("{}", JObject(NoMembers)))),
      HttpDevice(HttpResponse(200, JsonBody("0", JNumber(0)))),
      HttpDevice(HttpResponse(200,
          TextBody("2025-06-28 09:23:01 fan1 lost\n<end>"))),
      HttpDevice(HttpResponse(401, TextBody("Unauthorized"))),
      HttpDevice(HttpRefused),
      \* socket API: all fans turning, one fan stopped, objects that are not
      \* separated, a time-out
      SocketDevice(SocketData(JsonBody("{\"STATS\": ...}",
          StatsDoc("Antminer S21+",
                   [fan_num |-> JNumber(2), fan1 |-> JNumber(5400),
                    fan2 |-> JNumber(5370)])))),
      SocketDevice(SocketData(JsonBody("{\"STATS\": ...}",
          StatsDoc("Antminer S19j Pro",
                   [fan_num |-> JNumber(2), fan1 |-> JNumber(0),
                    fan2 |-> JNumber(5370)])))),
      SocketDevice(SocketData(UnseparatedBody("{\"STATS\":[{...}{...}]}",
          StatsDoc("Antminer Z15j",
                   [fan_num |-> JNumber(2), fan1 |-> JNumber(0),
                    fan2 |-> JNumber(0), fan3 |-> JNumber(4000),
                    fan4 |-> JNumber(0)])))),
      SocketDevice(SocketFailed("timeout")),
      \* log WebSocket: two log lines out of order, a message without logs
      WebSocketDevice([connect |-> "ok", recv |-> "text",
          message |-> "[2025/06/28 09:23:01] INFO: Setup completed\n"
                      \o "[2025/06/27 23:10:45] ERROR: Fan lost"]),
      WebSocketDevice([connect |-> "ok", recv |-> "timeout"]) }

SiteConfigs ==
    { [site_id |-> "site-1"],
      [site_id |-> "site-1",
       models |-> JObject([Z15 |-> JObject([fans |-> JNumber(2)])])],
      [site_id |-> "site-1", models |-> JArray(<<>>)] }

FetchAddresses == {"10.0.0.5"}

\* the registered types, a type no module registers, and unknown
FetchTypes ==
    {HandlerModules[i][1] : i \in DOMAIN HandlerModules}
        \cup {"S21 Pro", "unknown"}

(***************************************************************************)
(* Fetch operations                                                        *)
(***************************************************************************)
\* importing the next handler module registers its handler and its detector
import_handler_module ==
    /\ Len(handlers) < Len(HandlerModules)
    /\ LET m == HandlerModules[Len(handlers) + 1] IN
        /\ handlers' = register_handler_to(handlers, m[1], m[2])
        /\ detectors' = register_detector_to(detectors, m[1], m[2] \o ".detect")
        /\ op' = [name |-> "import", module |-> m[2]]
    /\ UNCHANGED scanner

fetch_logs_from_device(ip, device_type, site_config, device, package) ==
    /\ op' = [name |-> "fetch_logs_from_device",
              ip |-> ip,
              device_type |-> device_type,
              handler_class |-> IF HasKey(handlers, device_type)
                                THEN Get(handlers, device_type)
                                ELSE NoneStr,
              fetch_called |-> /\ HasKey(handlers, device_type)
                               /\ model_config_error(site_config) = NoneStr,
              outcome |-> fetch_logs_unguarded(handlers, site_config, ip,
                                               device_type, device, package),
              result |-> fetch_logs_result(handlers, site_config, ip,
                                           device_type, device, package)]
    /\ UNCHANGED <<detectors, handlers, scanner>>

InitFetch ==
    /\ detectors = <<>>
    /\ handlers = <<>>
    /\ scanner = NoneDict
    /\ op = [name |-> "start"]

NextFetch ==
    \/ import_handler_module
    \/ \E ip \in FetchAddresses, device_type \in FetchTypes,
          site_config \in SiteConfigs, device \in Devices,
          package \in WebSocketPackages :
           fetch_logs_from_device(ip, device_type, site_config, device, package)

SpecFetch == InitFetch /\ [][NextFetch]_vars

(***************************************************************************)
(* SiteScanner.analyze_device_issues and generate_subsection_summary       *)
(*                                                                         *)
(* The site configuration is the dict json.load made of the file: "models" *)
(* is a JSON object of JSON objects, "subsections" a list of dicts with    *)
(* "name", "ip_ranges" and "miners" (dicts with "model" and "quantity").   *)
(* The dicts of a summary that are iterated are kept in insertion order.   *)
(***************************************************************************)
EmptyDict == [k \in {} |-> NoneStr]

\* d.get(k, default)
GetOr(d, k, default) == IF k \in DOMAIN d THEN d[k] ELSE default

\* d.get(k, []) of an insertion-ordered dict of lists
GetList(d, k) == IF HasKey(d, k) THEN Get(d, k) ELSE <<>>

\* self.site_config.get("models", {}).get(device_type, {})
model_config_of(site_config, device_type) ==
    IF "models" \in DOMAIN site_config
       /\ device_type \in DOMAIN site_config.models.members
    THEN site_config.models.members[device_type].members
    ELSE NoMembers

\* model_config.get(k, default) of a number
ConfigNumber(model_config, k, default) ==
    IF k \in DOMAIN model_config THEN model_config[k].n ELSE default

\* sum(1 for hb in hashboards if hb.get("status") == "active")
active_hashboards(device_data) ==
    Len(SelectSeq(device_data.hashboards,
                  LAMBDA hb : GetOr(hb, "status", NoneStr) = "active"))

\* sum(1 for fan in fans if fan.get("speed", 0) > 0)
active_fans(device_data) ==
    Len(SelectSeq(device_data.fans, LAMBDA fan : GetOr(fan, "speed", 0) > 0))

hashboards_issue(model_config, device_data) ==
    IF "hashboards" \in DOMAIN device_data
       /\ active_hashboards(device_data) < ConfigNumber(model_config, "HB", 3)
    THEN [hashboards |->
             "Missing "
             \o ToString(ConfigNumber(model_config, "HB", 3)
                         - active_hashboards(device_data))
             \o " Hashboard(s)"]
    ELSE EmptyDict

\* a fan check that takes no active fan for no fan data
fans_issue_unless_none(model_config, device_data) ==
    IF "fans" \in DOMAIN device_data
       /\ active_fans(device_data) > 0
       /\ active_fans(device_data) < ConfigNumber(model_config, "fans", 2)
    THEN [fans |->
             "Missing "
             \o ToString(ConfigNumber(model_config, "fans", 2)
                         - active_fans(device_data))
             \o " Fan(s)"]
    ELSE EmptyDict

\* a fan check without the text for no active fan
fans_issue_missing_only(model_config, device_data) ==
    IF "fans" \in DOMAIN device_data
       /\ active_fans(device_data) < ConfigNumber(model_config, "fans", 2)
    THEN [fans |->
             "Missing "
             \o ToString(ConfigNumber(model_config, "fans", 2)
                         - active_fans(device_data))
             \o " Fan(s)"]
    ELSE EmptyDict

fans_issue(model_config, device_data) ==
    IF "fans" \in DOMAIN device_data
       /\ active_fans(device_data) < ConfigNumber(model_config, "fans", 2)
    THEN [fans |->
             IF active_fans(device_data) = 0 THEN "No fans"
             ELSE "Missing "
                  \o ToString(ConfigNumber(model_config, "fans", 2)
                              - active_fans(device_data))
                  \o " Fan(s)"]
    ELSE EmptyDict

\* actual_hashrate < expected_hashrate * 0.6, on whole numbers
hashrate_issue(model_config, device_data) ==
    IF "hashrate" \in DOMAIN device_data
       /\ device_data.hashrate > 0
       /\ 10 * device_data.hashrate
              < 6 * ConfigNumber(model_config, "hashrate", 0)
    THEN [hashrate |->
             "Low hashrate: " \o ToString(device_data.hashrate)
             \o " (Expected: "
             \o ToString(ConfigNumber(model_config, "hashrate", 0)) \o ")"]
    ELSE EmptyDict

\* an analysis that leaves the message of the device out
message_issue_ignored(device_data) == EmptyDict

message_issue(device_data) ==
    IF "message" \in DOMAIN device_data /\ device_data.message # ""
    THEN [message |-> device_data.message]
    ELSE EmptyDict

\* the issues dict: the four checks write different keys
issues_of(model_config, device_data) ==
    hashboards_issue(model_config, device_data)
    @@ fans_issue(model_config, device_data)
    @@ hashrate_issue(model_config, device_data)
    @@ message_issue(device_data)

analyze_device_issues(site_config, device_data) ==
    issues_of(model_config_of(site_config,
                              GetOr(device_data, "device_type", "unknown")),
              device_data)

\* {miner["model"]: miner["quantity"] for miner in expected_miners}
RECURSIVE expected_by_model(_, _)
expected_by_model(miners, acc) ==
    IF miners = <<>> THEN acc
    ELSE expected_by_model(Tail(miners),
             SetItem(acc, Head(miners).model, Head(miners).quantity))

\* if k not in d: d[k] = []   followed by   d[k].append(v)
AppendTo(d, k, v) == SetItem(d, k, Append(GetList(d, k), v))

\* a grouping that looks at the issues of the first device only
group_device_first_only(device_type, ip, issues, groups) ==
    <<AppendTo(groups[1], device_type, ip),
      IF DOMAIN issues # {} /\ groups[1] = <<>>
      THEN AppendTo(groups[2], device_type, [ip |-> ip, issues |-> issues])
      ELSE groups[2]>>

\* one pass of the loop over devices.items(); groups is
\* <<devices_by_type, devices_with_issues>>
group_device(device_type, ip, issues, groups) ==
    <<AppendTo(groups[1], device_type, ip),
      IF DOMAIN issues # {}
      THEN AppendTo(groups[2], device_type, [ip |-> ip, issues |-> issues])
      ELSE groups[2]>>

RECURSIVE group_devices(_, _, _)
group_devices(site_config, devices, groups) ==
    IF devices = <<>> THEN groups
    ELSE group_devices(site_config, Tail(devices),
             group_device(
                 normalize_device_type(
                     GetOr(Head(devices)[2], "device_type", "unknown")),
                 Head(devices)[1],
                 analyze_device_issues(site_config, Head(devices)[2]),
                 groups))

comparison_row(expected_count, actual_count, issues_count) ==
    [expected |-> expected_count,
     actual |-> actual_count,
     working |-> actual_count - issues_count,
     with_issues |-> issues_count,
     offline |-> expected_count - actual_count]

summary_of(expected_miners, groups) ==
    [working |->
         [i \in DOMAIN groups[1] |->
             <<groups[1][i][1],
               Len(groups[1][i][2]) - Len(GetList(groups[2], groups[1][i][1]))>>],
     issues |-> groups[2],
     comparison |->
         [i \in DOMAIN expected_miners |->
             <<expected_miners[i][1],
               comparison_row(expected_miners[i][2],
                              Len(GetList(groups[1], expected_miners[i][1])),
                              Len(GetList(groups[2], expected_miners[i][1])))>>]]

generate_subsection_summary(site_config, subsection_results) ==
    summary_of(expected_by_model(subsection_results.expected_miners, <<>>),
               group_devices(site_config, subsection_results.devices,
                             << <<>>, <<>> >>))

(***************************************************************************)
(* SiteScanner: scan_ip_range, scan_subsection, scan_site                  *)
(*                                                                         *)
(* A network tells, for each address, what the TCP connect to port 80      *)
(* does ("ok", "refused", "timeout", "oserror") and, for an address that   *)
(* accepts, the device behind it and what each registered detector does    *)
(* when called for it.  completion is the order in which the probe         *)
(* workers of one batch finish (concurrent.futures.as_completed).          *)
(***************************************************************************)
\* a probe that takes every returned error code for an answer
check_ip_responsive_unless_raised(network, ip) ==
    ip \in DOMAIN network /\ network[ip].connect \in {"ok", "timeout", "refused"}

\* connect_ex returned 0; an error code or socket.error gives False
check_ip_responsive(network, ip) ==
    ip \in DOMAIN network /\ network[ip].connect = "ok"

scan_ip_range(ip_range, network, completion) ==
    LET ips == parse_ip_range(ip_range) IN
    SelectSeq(completion,
              LAMBDA ip : /\ \E i \in DOMAIN ips : ips[i] = ip
                          /\ check_ip_responsive(network, ip))

\* for ip_range in ip_ranges: all_active_ips.extend(scan_ip_range(ip_range))
RECURSIVE scan_ip_ranges(_, _, _)
scan_ip_ranges(ip_ranges, network, completion) ==
    IF ip_ranges = <<>> THEN <<>>
    ELSE scan_ip_range(Head(ip_ranges), network, completion)
         \o scan_ip_ranges(Tail(ip_ranges), network, completion)

\* the WebSocket package of the installation that scans
InstalledPackage == "websockets"

\* the three assignments to result; device_info is what detect_device_type
\* returned, and it has no "source" key
device_record(ip, device_info, result) ==
    Put(Put(Put(result, "device_type",
                GetOr(device_info, "device_type", "unknown")),
            "device_type_source", GetOr(device_info, "source", NoneStr)),
        "ip", ip)

\* subsection_results["devices"][ip] = result; self.raw_scan_data[ip] = result
\* stored is <<devices, raw_scan_data>>
store_record(ip, record, stored) ==
    <<SetItem(stored[1], ip, record), SetItem(stored[2], ip, record)>>

\* if result: ...
record_result(ip, device_info, result, stored) ==
    IF Truthy(result)
    THEN store_record(ip, device_record(ip, device_info, result), stored)
    ELSE stored

\* fetch_logs_from_device(ip, device_info.get("device_type", "unknown"))
fetch_detected(hs, site_config, ip, device_info, device) ==
    fetch_logs_result(hs, site_config, ip,
                      GetOr(device_info, "device_type", "unknown"),
                      device, InstalledPackage)

\* the body of the loop over all_active_ips
scan_device(ip, device_info, device, hs, site_config, stored) ==
    record_result(ip, device_info,
                  fetch_detected(hs, site_config, ip, device_info, device),
                  stored)

RECURSIVE scan_devices(_, _, _, _, _, _)
scan_devices(ips, network, hs, dets, site_config, stored) ==
    IF ips = <<>> THEN stored
    ELSE scan_devices(Tail(ips), network, hs, dets, site_config,
             scan_device(Head(ips),
                         detect_result(dets, network[Head(ips)].probe),
                         network[Head(ips)].device,
                         hs, site_config, stored))

\* subsection_results["summary"] = self.generate_subsection_summary(...)
with_summary(site_config, subsection_results) ==
    [subsection_results EXCEPT
        !.summary = generate_subsection_summary(site_config, subsection_results)]

\* what scan_subsection returns, and raw_scan_data after it
subsection_scanned(subsection, site_config, all_active_ips, stored) ==
    <<with_summary(site_config,
          [name |-> GetOr(subsection, "name", "Unnamed Subsection"),
           ip_ranges |-> GetOr(subsection, "ip_ranges", <<>>),
           expected_miners |-> GetOr(subsection, "miners", <<>>),
           active_ips |-> all_active_ips,
           devices |-> stored[1],
           summary |-> EmptyDict]),
      stored[2]>>

scan_active_ips(subsection, site_config, all_active_ips, network, hs, dets, raw) ==
    subsection_scanned(subsection, site_config, all_active_ips,
        scan_devices(all_active_ips, network, hs, dets, site_config,
                     << <<>>, raw >>))

scan_subsection(subsection, site_config, network, completion, hs, dets, raw) ==
    scan_active_ips(subsection, site_config,
        scan_ip_ranges(GetOr(subsection, "ip_ranges", <<>>), network, completion),
        network, hs, dets, raw)

\* site_results["subsections"].append(subsection_result); scanned is
\* <<the subsection results so far, raw_scan_data>>
subsection_appended(scanned, subsection_scan) ==
    <<Append(scanned[1], subsection_scan[1]), subsection_scan[2]>>

RECURSIVE scan_subsections(_, _, _, _, _, _, _)
scan_subsections(subsections, site_config, network, completion, hs, dets, scanned) ==
    IF subsections = <<>> THEN scanned
    ELSE scan_subsections(Tail(subsections), site_config, network, completion,
             hs, dets,
             subsection_appended(scanned,
                 scan_subsection(Head(subsections), site_config, network,
                                 completion, hs, dets, scanned[2])))

\* site_results without its timestamp and duration_seconds; raw_data is
\* self.raw_scan_data itself
site_results_of(site_id, scanned) ==
    [site_id |-> site_id, subsections |-> scanned[1], raw_data |-> scanned[2]]

scan_site_results(sc, network, completion, hs, dets) ==
    site_results_of(GetOr(sc.site_config, "site_id", "Unknown Site"),
        scan_subsections(GetOr(sc.site_config, "subsections", <<>>),
                         sc.site_config, network, completion, hs, dets,
                         << <<>>, sc.raw_scan_data >>))

(***************************************************************************)
(* Networks and site configurations of the scans                           *)
(***************************************************************************)
MaxScans == 2

ScanAddresses == {"10.0.0.1", "10.0.0.2"}

ImportedTypes == {HandlerModules[i][1] : i \in DOMAIN HandlerModules}

\* the detectors' answers for a device that only the detector of type
\* matching accepts
Probe(matching) ==
    [t \in ImportedTypes |-> IF t = matching THEN "true" ELSE "false"]

NoAnswer == [connect |-> "refused"]

Answering(probe, device) ==
    [connect |-> "ok", probe |-> probe, device |-> device]

Machines ==
    { \* a Z15 whose log ends in a fan message
      Answering(Probe("Z15"),
          HttpDevice(HttpResponse(200,
              LogBody(JString("Jan 1 cgminer[1]: No 2 Fan find, check again\n"))))),
      \* a Z15 whose log CGI answers with an object without "log"
      Answering(Probe("Z15"),
          HttpDevice(HttpResponse(200, JsonBody("{}", JObject(NoMembers))))),
      \* a Z15 on which the Z15j detector raises and whose log CGI answers
      \* with a number
      Answering([Probe("Z15") EXCEPT !["Z15j"] = "raise"],
          HttpDevice(HttpResponse(200, JsonBody("0", JNumber(0))))),
      \* an S21+ with both fans turning
      Answering(Probe("S21+"),
          SocketDevice(SocketData(JsonBody("{\"STATS\": ...}",
              StatsDoc("Antminer S21+",
                       [fan_num |-> JNumber(2), fan1 |-> JNumber(5400),
                        fan2 |-> JNumber(5370)]))))),
      \* a web server that is no miner
      Answering(Probe("none"),
          HttpDevice(HttpResponse(401, TextBody("Unauthorized")))) }

Networks == [ScanAddresses -> Machines \cup {NoAnswer}]

Completions ==
    {q \in [1..Cardinality(ScanAddresses) -> ScanAddresses] :
        \A i, j \in DOMAIN q : i # j => q[i] # q[j]}

ScanSiteConfigs ==
    { [site_id |-> "site-1",
       models |-> JObject([Z15 |-> JObject([fans |-> JNumber(2)])]),
       subsections |->
           << [name |-> "rack-1",
               ip_ranges |-> <<"10.0.0.1-2">>,
               miners |-> << [model |-> "Z15", quantity |-> 1] >>] >>],
      [site_id |-> "site-2",
       subsections |->
           << [name |-> "pod-a",
               ip_ranges |-> <<"10.0.0.1">>,
               miners |-> << [model |-> "S21+", quantity |-> 2],
                             [model |-> "Z15", quantity |-> 1] >>],
              [ip_ranges |-> <<"10.0.0.2/32">>] >>] }

\* the preferred order of the reorder_detectors call that follows the imports
ImportPreferredOrder ==
    <<"Z15j", "Z15", "T21", "S21", "S21Pro", "S19jPro", "DG1">>

\* the registry dicts after the first n handler modules were imported
RECURSIVE imported_handlers(_)
imported_handlers(n) ==
    IF n = 0 THEN <<>>
    ELSE register_handler_to(imported_handlers(n - 1),
                             HandlerModules[n][1], HandlerModules[n][2])

RECURSIVE imported_detectors(_)
imported_detectors(n) ==
    IF n = 0 THEN <<>>
    ELSE register_detector_to(imported_detectors(n - 1),
                              HandlerModules[n][1],
                              HandlerModules[n][2] \o ".detect")

(***************************************************************************)
(* Scan operations: one SiteScanner, made once site_scanner is imported,   *)
(* and its scan_site calls.                                                *)
(***************************************************************************)
\* SiteScanner(config_file), the file holding site_config
new_SiteScanner(site_config) ==
    /\ scanner = NoneDict
    /\ scanner' = [site_config |-> site_config, raw_scan_data |-> <<>>]
    /\ op' = [name |-> "SiteScanner", call |-> 0]
    /\ UNCHANGED <<detectors, handlers>>

scan_site(network, completion) ==
    /\ scanner # NoneDict
    /\ op.call < MaxScans
    /\ op' = [name |-> "scan_site",
              call |-> op.call + 1,
              network |-> network,
              site_results |-> scan_site_results(scanner, network, completion,
                                                 handlers, detectors)]
    /\ scanner' = [scanner EXCEPT !.raw_scan_data = op'.site_results.raw_data]
    /\ UNCHANGED <<detectors, handlers>>

InitScan ==
    /\ detectors = reordered(imported_detectors(Len(HandlerModules)),
                             ImportPreferredOrder)
    /\ handlers = imported_handlers(Len(HandlerModules))
    /\ scanner = NoneDict
    /\ op = [name |-> "import"]

NextScan ==
    \/ \E site_config \in ScanSiteConfigs : new_SiteScanner(site_config)
    \/ \E network \in Networks, completion \in Completions :
           scan_site(network, completion)

SpecScan == InitScan /\ [][NextScan]_vars

(***************************************************************************)
(* The loop of scan_subsection over ip_ranges, for a subsection whose      *)
(* first range is the range text and whose other ranges are well-formed.   *)
(***************************************************************************)
\* what the connect to port 80 does: connect_ex returns 0, returns the error
\* code of a time-out or of a refusal, or socket.error is raised
ConnectOutcomes == {"ok", "timeout", "refused", "oserror"}

ProbeNetworks == [ScanAddresses -> {[connect |-> c] : c \in ConnectOutcomes}]

FollowingRanges == {<<"10.0.0.2">>, <<"10.0.0.1-2", "10.0.0.2/32">>}

scan_ranges_of_subsection(rest, network, completion) ==
    /\ op.name = "range_text"
    /\ op' = [name |-> "scan_ip_ranges",
              ip_range |-> op.ip_range,
              rest |-> rest,
              network |-> network,
              active_ips |-> scan_ip_ranges(<<op.ip_range>> \o rest,
                                            network, completion)]
    /\ UNCHANGED <<detectors, handlers, scanner>>

NextRanges ==
    \/ call_parse_ip_range
    \/ \E rest \in FollowingRanges, network \in ProbeNetworks,
          completion \in Completions :
           scan_ranges_of_subsection(rest, network, completion)

SpecRanges == InitParse /\ [][NextRanges]_vars

(***************************************************************************)
(* scan_ip_range step by step: the main thread submits one future per      *)
(* address to the ThreadPoolExecutor, the worker threads run               *)
(* check_ip_responsive, the main thread takes the futures in the order     *)
(* as_completed yields them.  op holds the locals of the call.             *)
(***************************************************************************)
max_workers == 50

ProbeAddresses == {"10.0.0.1", "10.0.0.2", "10.0.0.3"}

ProbeRanges == {"10.0.0.1-3", "10.0.0.0/30", "10.0.0.3", "10.0.0.1-x"}

\* a worker whose connect is "exception" raises something that is no
\* socket.error (settimeout of a timeout that is no number)
WorkerNetworks ==
    [ProbeAddresses -> {[connect |-> c] : c \in ConnectOutcomes \cup {"exception"}}]

\* what future.result() gives once the worker is done
future_result(network, ip) ==
    IF network[ip].connect = "exception" THEN "raised"
    ELSE IF check_ip_responsive(network, ip) THEN "True" ELSE "False"

FutureDone == {"True", "False", "raised"}

Running(futures) == {i \in DOMAIN futures : futures[i] = "running"}

Queued(futures) == {i \in DOMAIN futures : futures[i] = "queued"}

call_scan_ip_range ==
    /\ op.name = "probe_input"
    /\ LET ips == parse_ip_range(op.ip_range) IN
       op' = [name |-> "scan_ip_range",
              pc |-> IF ips = <<>> THEN "returned" ELSE "submit",   \* if not ips: return []
              ip_range |-> op.ip_range,
              network |-> op.network,
              ips |-> ips,
              futures |-> [i \in DOMAIN ips |-> "unsubmitted"],
              probes |-> [i \in DOMAIN ips |-> 0],
              yielded |-> {},
              responsive_ips |-> <<>>,
              result |-> <<>>]
    /\ UNCHANGED <<detectors, handlers, scanner>>

\* executor.submit(self.check_ip_responsive, ip) for ip in ips
executor_submit ==
    /\ op.name = "scan_ip_range" /\ op.pc = "submit"
    /\ LET i == CHOOSE j \in DOMAIN op.futures :
                    /\ op.futures[j] = "unsubmitted"
                    /\ \A k \in 1..(j - 1) : op.futures[k] # "unsubmitted"
           submitted == [op.futures EXCEPT ![i] = "queued"]
       IN op' = [op EXCEPT !.futures = submitted,
                           !.pc = IF i = Len(op.futures) THEN "as_completed" ELSE "submit"]
    /\ UNCHANGED <<detectors, handlers, scanner>>

\* a pool that starts a thread for every work item
worker_run_unbounded(i) ==
    /\ op.name = "scan_ip_range" /\ op.pc \in {"submit", "as_completed"}
    /\ i \in Queued(op.futures)
    /\ \A k \in Queued(op.futures) : i <= k
    /\ op' = [op EXCEPT !.futures[i] = "running", !.probes[i] = @ + 1]
    /\ UNCHANGED <<detectors, handlers, scanner>>

\* a worker thread takes the oldest work item and calls check_ip_responsive
\* for its address (op.probes counts the calls); at most max_workers threads
worker_run(i) ==
    /\ op.name = "scan_ip_range" /\ op.pc \in {"submit", "as_completed"}
    /\ i \in Queued(op.futures)
    /\ \A k \in Queued(op.futures) : i <= k
    /\ Cardinality(Running(op.futures)) < max_workers
    /\ op' = [op EXCEPT !.futures[i] = "running", !.probes[i] = @ + 1]
    /\ UNCHANGED <<detectors, handlers, scanner>>

\* check_ip_responsive returned or raised in the worker
worker_done(i) ==
    /\ op.name = "scan_ip_range" /\ op.pc \in {"submit", "as_completed"}
    /\ i \in Running(op.futures)
    /\ op' = [op EXCEPT !.futures[i] = future_result(op.network, op.ips[i])]
    /\ UNCHANGED <<detectors, handlers, scanner>>

\* for future in as_completed(future_to_ip): one finished future, each once
as_completed_next(i) ==
    /\ op.name = "scan_ip_range" /\ op.pc = "as_completed"
    /\ i \in DOMAIN op.futures \ op.yielded
    /\ op.futures[i] \in FutureDone
    /\ op' = [op EXCEPT !.yielded = @ \cup {i},
                        !.responsive_ips =
                            IF op.futures[i] = "True"        \* "raised": except Exception
                            THEN Append(@, op.ips[i]) ELSE @]
    /\ UNCHANGED <<detectors, handlers, scanner>>

scan_ip_range_return ==
    /\ op.name = "scan_ip_range" /\ op.pc = "as_completed"
    /\ op.yielded = DOMAIN op.futures
    /\ op' = [op EXCEPT !.pc = "returned", !.result = op.responsive_ips]
    /\ UNCHANGED <<detectors, handlers, scanner>>

InitProbe ==
    /\ detectors = <<>>
    /\ handlers = <<>>
    /\ scanner = NoneDict
    /\ op \in {[name |-> "probe_input", ip_range |-> r, network |-> n] :
                  r \in ProbeRanges, n \in WorkerNetworks}

\* the steps of the main thread inside the call and of the worker threads
ProbeThreads ==
    \/ executor_submit
    \/ \E i \in 1..Cardinality(ProbeAddresses) : worker_run(i)
    \/ \E i \in 1..Cardinality(ProbeAddresses) : worker_done(i)
    \/ \E i \in 1..Cardinality(ProbeAddresses) : as_completed_next(i)
    \/ scan_ip_range_return

NextProbe == call_scan_ip_range \/ ProbeThreads

\* every connect ends (settimeout, or the time-out of the system), and the
\* threads are scheduled: a step of the call that stays possible is taken
SpecProbe == InitProbe /\ [][NextProbe]_vars /\ WF_vars(ProbeThreads)

(***************************************************************************)
(* scan_ip_range on a range of more addresses than the pool has threads.   *)
(* The steps are those of SpecProbe; of the running probes the oldest      *)
(* finishes first and as_completed yields the finished futures oldest      *)
(* first, which leaves every count of queued, running and finished futures *)
(* possible (the orders of completion are those of SpecProbe).             *)
(***************************************************************************)
PoolRanges == {"10.0.0.1-" \o ToString(max_workers + 2), "10.0.0.9"}

PoolAddresses == {"10.0.0." \o ToString(i) : i \in 1..(max_workers + 2)}

\* the devices at the addresses ending in 0 accept, the others refuse
PoolNetwork ==
    [ip \in PoolAddresses |->
        [connect |-> IF At(ip, Len(ip)) = "0" THEN "ok" ELSE "refused"]]

\* the oldest of the futures with the given indices, if there is any
Oldest(indices) == {i \in indices : \A k \in indices : i <= k}

InitPool ==
    /\ detectors = <<>>
    /\ handlers = <<>>
    /\ scanner = NoneDict
    /\ op \in {[name |-> "probe_input", ip_range |-> r, network |-> PoolNetwork] :
                  r \in PoolRanges}

NextPool ==
    \/ call_scan_ip_range
    \/ executor_submit
    \/ /\ op.name = "scan_ip_range"
       /\ \E i \in Oldest(Queued(op.futures)) : worker_run(i)
    \/ /\ op.name = "scan_ip_range"
       /\ \E i \in Oldest(Running(op.futures)) : worker_done(i)
    \/ /\ op.name = "scan_ip_range"
       /\ \E i \in Oldest({k \in DOMAIN op.futures \ op.yielded :
                              op.futures[k] \in FutureDone}) :
              as_completed_next(i)
    \/ scan_ip_range_return

SpecPool == InitPool /\ [][NextPool]_vars

(***************************************************************************)
(* Claims about range expansion, checked under SpecParse.                  *)
(***************************************************************************)
ParseDone == op.name = "parse_ip_range"

\* the range text is CIDR notation that ip_network accepts
ValidCidr(t) == Contains(t, "/") /\ IpNetworkOf(t).ok

AddrLess(a, b) == a.hi < b.hi \/ (a.hi = b.hi /\ a.lo < b.lo)

NetworkAddress(t) == IpNetworkOf(t).network_address

BroadcastAddress(t) ==
    AddrPlus(NetworkAddress(t), Pow2(32 - IpNetworkOf(t).prefixlen) - 1)

\* every returned text is an address strictly between the network address
\* and the broadcast address of the range
OnlyInnerAddresses(t, result) ==
    \A i \in DOMAIN result :
        /\ Ip4Of(result[i]).ok
        /\ AddrLess(NetworkAddress(t), Ip4Of(result[i]).value)
        /\ AddrLess(Ip4Of(result[i]).value, BroadcastAddress(t))

\* C10 as stated: for every valid CIDR text parse_ip_range returns only
\* addresses of the network other than its network address and its
\* broadcast address, and 254 of them for a /24.
C10_CidrExcludesNetworkAndBroadcast ==
    (ParseDone /\ ValidCidr(op.ip_range)) =>
        /\ OnlyInnerAddresses(op.ip_range, op.result)
        /\ IpNetworkOf(op.ip_range).prefixlen = 24 => Len(op.result) = 254

\* C10 as amended: for a valid CIDR text of prefix length at most 30
\* parse_ip_range returns each address of the network except the network
\* address and the broadcast address, once (254 addresses for a /24); for a
\* /31 it returns both addresses of the network and for a /32 the address.
C10_CidrHosts ==
    (ParseDone /\ ValidCidr(op.ip_range)) =>
        LET prefixlen == IpNetworkOf(op.ip_range).prefixlen
            result == op.result
        IN /\ prefixlen <= 30 =>
                /\ OnlyInnerAddresses(op.ip_range, result)
                /\ Len(result) = Pow2(32 - prefixlen) - 2
                /\ Cardinality({result[i] : i \in DOMAIN result}) = Len(result)
           /\ prefixlen = 24 => Len(result) = 254
           /\ prefixlen = 31 =>
                result = <<Ip4Str(NetworkAddress(op.ip_range)),
                           Ip4Str(BroadcastAddress(op.ip_range))>>
           /\ prefixlen = 32 => result = <<Ip4Str(NetworkAddress(op.ip_range))>>

\* a /24 expanded to its 254 hosts, from .1 to .254
C10_Witness ==
    /\ ParseDone
    /\ op.ip_range = "10.0.2.0/24"
    /\ Len(op.result) = 254
    /\ op.result[1] = "10.0.2.1"
    /\ op.result[254] = "10.0.2.254"

\* the range text is a.b.c.d-N: an address, a dash and decimal digits
IsDashRange(t) ==
    /\ ~Contains(t, "/")
    /\ Len(Split(t, "-")) = 2
    /\ Ip4Of(Split(t, "-")[1]).ok
    /\ IsDigit(Split(t, "-")[2])

DashBase(t) == Ip4Of(Split(t, "-")[1]).value

DashEnd(t) == DigitsToInt(Split(t, "-")[2])

\* "a.b.c." of an address
FirstThreeOctets(a) ==
    ToString(a.hi) \o "." \o ToString(a.lo \div Pow2(16)) \o "."
    \o ToString((a.lo \div Pow2(8)) % 256) \o "."

\* C11: for a dash range a.b.c.d-N with numeric N parse_ip_range returns
\* a.b.c.d, a.b.c.(d+1), ..., a.b.c.N, each once and in ascending order
\* (N-d+1 addresses, 10 for 10.0.0.1-10), and the empty list when N < d.
C11_DashRangeIsLastOctetInterval ==
    (ParseDone /\ IsDashRange(op.ip_range)) =>
        LET d == DashBase(op.ip_range).lo % 256
            N == DashEnd(op.ip_range)
        IN /\ Len(op.result) = IF N < d THEN 0 ELSE N - d + 1
           /\ \A i \in DOMAIN op.result :
                  op.result[i] = FirstThreeOctets(DashBase(op.ip_range))
                                 \o ToString(d + i - 1)
           /\ op.ip_range = "10.0.0.1-10" => Len(op.result) = 10

\* 10.0.0.1-10 expanded to its ten addresses
C11_Witness ==
    /\ ParseDone
    /\ op.ip_range = "10.0.0.1-10"
    /\ Len(op.result) = 10
    /\ op.result[1] = "10.0.0.1"
    /\ op.result[2] = "10.0.0.2"
    /\ op.result[10] = "10.0.0.10"

\* The range texts C12 is about: a CIDR text ip_network rejects, a dash range
\* whose base has not four octets or whose end is not numeric, a text
\* without "/" and "-" that is no address.
InvalidRange(t) ==
    IF Contains(t, "/") THEN ~IpNetworkOf(t).ok
    ELSE IF Contains(t, "-")
         THEN \/ Len(Split(Strip(Split(t, "-")[1]), ".")) # 4
              \/ ~IsDigit(Strip(Split(t, "-")[2]))
         ELSE ~Ip4Of(t).ok

ScanRangesDone == op.name = "scan_ip_ranges"

\* the responsive addresses among those the well-formed ranges name, which
\* are addresses of ScanAddresses
ResponsiveOf(ranges, network) ==
    {ip \in ScanAddresses :
        /\ network[ip].connect = "ok"
        /\ \E i \in DOMAIN ranges :
               \/ ranges[i] = ip
               \/ ranges[i] = ip \o "/32"
               \/ ranges[i] = "10.0.0.1-2"}

\* C12: parse_ip_range fails closed without raising: an invalid CIDR, a dash
\* range whose base has not four octets or whose end is not numeric, and an
\* unparseable single address give the empty list, and the other ranges of
\* the subsection are still scanned.
C12_ParseFailsClosed ==
    /\ (ParseDone /\ InvalidRange(op.ip_range)) => op.result = <<>>
    /\ (ScanRangesDone /\ InvalidRange(op.ip_range)) =>
           {op.active_ips[i] : i \in DOMAIN op.active_ips}
               = ResponsiveOf(op.rest, op.network)

\* after the CIDR text 10.0.0.0/33 the ranges 10.0.0.1-2 and 10.0.0.2/32 were
\* scanned: both addresses answer, 10.0.0.2 is found through both ranges
C12_Witness ==
    /\ ScanRangesDone
    /\ op.ip_range = "10.0.0.0/33"
    /\ Len(op.rest) = 2
    /\ \A ip \in ScanAddresses : op.network[ip].connect = "ok"
    /\ op.active_ips = <<"10.0.0.1", "10.0.0.2", "10.0.0.2">>

(***************************************************************************)
(* The socket handlers on the text of a response: json.loads for texts     *)
(* of objects, arrays, strings without backslash, unsigned integers and    *)
(* null, and the repair of the Z15j handler.  Of the message of a          *)
(* JSONDecodeError only the head is kept (no ": line 1 column ...").       *)
(***************************************************************************)
Parsed(v, n) == [ok |-> TRUE, value |-> v, next |-> n]

NotParsed(msg) == [ok |-> FALSE, msg |-> msg]

RECURSIVE SkipWs(_, _)
SkipWs(text, i) == IF At(text, i) \in Whitespace THEN SkipWs(text, i + 1) ELSE i

\* the index of the closing quote of the string whose text begins at j; 0 for none
RECURSIVE StringEnd(_, _)
StringEnd(text, j) ==
    IF j > Len(text) THEN 0
    ELSE IF At(text, j) = "\"" THEN j ELSE StringEnd(text, j + 1)

string_to(text, i, j) ==
    IF j = 0 THEN NotParsed("Unterminated string starting at")
    ELSE Parsed(JString(Slice(text, i + 1, j - 1)), j + 1)

\* the string whose opening quote is at i
parse_string(text, i) == string_to(text, i, StringEnd(text, i + 1))

RECURSIVE DigitsEnd(_, _)
DigitsEnd(text, j) == IF At(text, j) \in DigitChars THEN DigitsEnd(text, j + 1) ELSE j

number_to(text, i, j) == Parsed(JNumber(DigitsToInt(Slice(text, i, j - 1))), j)

\* (0|[1-9]\d*) at i
parse_number(text, i) ==
    IF At(text, i) = "0" THEN Parsed(JNumber(0), i + 1)
    ELSE number_to(text, i, DigitsEnd(text, i))

RECURSIVE parse_value(_, _)
RECURSIVE parse_members(_, _, _)
RECURSIVE parse_items(_, _, _)

member_after_value(text, key, r, members) ==
    IF ~r.ok THEN r
    ELSE IF At(text, SkipWs(text, r.next)) = ","
         THEN parse_members(text, SkipWs(text, r.next) + 1, (key :> r.value) @@ members)
         ELSE IF At(text, SkipWs(text, r.next)) = "}"
              THEN Parsed(JObject((key :> r.value) @@ members), SkipWs(text, r.next) + 1)
              ELSE NotParsed("Expecting ',' delimiter")

member_after_key(text, k, members) ==
    IF ~k.ok THEN k
    ELSE IF At(text, SkipWs(text, k.next)) # ":"
         THEN NotParsed("Expecting ':' delimiter")
         ELSE member_after_value(text, k.value.s,
                                 parse_value(text, SkipWs(text, k.next) + 1), members)

\* the pairs of an object from i on, after "{" or ","
parse_members(text, i, members) ==
    IF At(text, SkipWs(text, i)) # "\""
    THEN NotParsed("Expecting property name enclosed in double quotes")
    ELSE member_after_key(text, parse_string(text, SkipWs(text, i)), members)

item_after_value(text, r, items) ==
    IF ~r.ok THEN r
    ELSE IF At(text, SkipWs(text, r.next)) = ","
         THEN parse_items(text, SkipWs(text, r.next) + 1, Append(items, r.value))
         ELSE IF At(text, SkipWs(text, r.next)) = "]"
              THEN Parsed(JArray(Append(items, r.value)), SkipWs(text, r.next) + 1)
              ELSE NotParsed("Expecting ',' delimiter")

\* the items of an array from i on, after "[" or ","
parse_items(text, i, items) == item_after_value(text, parse_value(text, i), items)

value_at(text, i) ==
    CASE At(text, i) = "{" ->
             IF At(text, SkipWs(text, i + 1)) = "}"
             THEN Parsed(JObject(NoMembers), SkipWs(text, i + 1) + 1)
             ELSE parse_members(text, i + 1, NoMembers)
      [] At(text, i) = "[" ->
             IF At(text, SkipWs(text, i + 1)) = "]"
             THEN Parsed(JArray(<<>>), SkipWs(text, i + 1) + 1)
             ELSE parse_items(text, i + 1, <<>>)
      [] At(text, i) = "\"" -> parse_string(text, i)
      [] At(text, i) \in DigitChars -> parse_number(text, i)
      [] Slice(text, i, i + 3) = "null" -> Parsed(JNull, i + 4)
      [] OTHER -> NotParsed("Expecting value")

parse_value(text, i) == value_at(text, SkipWs(text, i))

whole_text(text, r) ==
    IF ~r.ok THEN r
    ELSE IF SkipWs(text, r.next) <= Len(text) THEN NotParsed("Extra data")
         ELSE r

\* json.loads(text): the value, or the JSONDecodeError
json_loads(text) == whole_text(text, parse_value(text, 1))

\* s.rstrip('%')
RECURSIVE RStripPercent(_)
RStripPercent(str) ==
    IF At(str, Len(str)) = "%" THEN RStripPercent(Slice(str, 1, Len(str) - 1)) ELSE str

\* re.sub(r'(\})(\{)', r'\1,\2', json_str): a comma between every "}" and
\* the "{" that follows it
RECURSIVE _fix_z15j_json(_)
_fix_z15j_json(json_str) ==
    IF Len(json_str) < 2 THEN json_str
    ELSE IF At(json_str, 1) = "}" /\ At(json_str, 2) = "{"
         THEN "}," \o _fix_z15j_json(Tail(json_str))
         ELSE At(json_str, 1) \o _fix_z15j_json(Tail(json_str))

loaded_or_invalid(response, loaded) ==
    IF loaded.ok THEN loaded.value
    ELSE JObject([error |-> JString("Invalid JSON response: " \o loaded.msg),
                  raw |-> JString(response)])

\* Z15jHandler.send_socket_command on the text the socket gave
Z15j_parse_response(response) ==
    loaded_or_invalid(response, json_loads(_fix_z15j_json(RStripPercent(response))))

loaded_or_fix(class_name, response, loaded) ==
    IF loaded.ok THEN loaded.value
    ELSE JObject([error |-> JString("JSON parsing error: '" \o class_name
                             \o "' object has no attribute 'fix_malformed_json'"),
                  raw |-> JString(response)])

\* SocketBasedHandler.send_socket_command on the text the socket gave:
\* after JSONDecodeError it calls self.fix_malformed_json, which no class
\* defines; the AttributeError is caught by the enclosing except Exception
parse_response(class_name, response) ==
    loaded_or_fix(class_name, response, json_loads(RStripPercent(response)))

ResponseElements ==
    {"{\"Type\":\"Antminer Z15j\"}", "{\"STATS\":0}", "{}",
     "{\"Msg\":\"a}{b\"}", "\"}{\"", "1", "[]"}

ResponseSeparators == {",", "", " , ", " "}

StatsText(a, sep, b) == "{\"STATS\":[" \o a \o sep \o b \o "]}"

ResponseTexts ==
    {StatsText(a, sep, b) : a \in ResponseElements, sep \in ResponseSeparators,
                             b \in ResponseElements}
    \cup ResponseElements
    \cup {a \o "%" : a \in ResponseElements}
    \cup {"", "{\"STATS\":[", "{\"STATS\" 1}", "{1}", "{\"a\":1,}", "null", "nul"}

SocketClasses == {"S21Handler", "S19jProHandler"}

Z15j_receive ==
    /\ op.name = "response"
    /\ op' = [name |-> "Z15j.send_socket_command",
              response |-> op.response,
              loaded |-> json_loads(RStripPercent(op.response)),
              fixed |-> _fix_z15j_json(RStripPercent(op.response)),
              loaded_fixed |-> json_loads(_fix_z15j_json(RStripPercent(op.response))),
              returned |-> Z15j_parse_response(op.response)]
    /\ UNCHANGED <<detectors, handlers, scanner>>

socket_receive(class_name) ==
    /\ op.name = "response"
    /\ op' = [name |-> "send_socket_command",
              class_name |-> class_name,
              response |-> op.response,
              returned |-> parse_response(class_name, op.response)]
    /\ UNCHANGED <<detectors, handlers, scanner>>

InitResponse ==
    /\ detectors = <<>>
    /\ handlers = <<>>
    /\ scanner = NoneDict
    /\ op \in {[name |-> "response", response |-> x] : x \in ResponseTexts}

NextResponse ==
    \/ Z15j_receive
    \/ \E class_name \in SocketClasses : socket_receive(class_name)

SpecResponse == InitResponse /\ [][NextResponse]_vars

(***************************************************************************)
(* analyze_device_issues on telemetry that carries a fan list.             *)
(***************************************************************************)
MaxFans == 4

\* a fan that stands still, one that turns, one without a "speed"
FanReadings == {[speed |-> 0], [speed |-> 4200], [id |-> 1]}

FanLists == SeqsUpTo(FanReadings, MaxFans)

TelemetryInputs ==
    {[device_type |-> "Z15", fans |-> fans] : fans \in FanLists}
    \cup {[device_type |-> "Z15", fans |-> fans, message |-> "fan1 lost"] :
             fans \in {<<>>, <<[speed |-> 4200]>>}}
    \cup {[device_type |-> "Z15"], [device_type |-> "Z15", message |-> "fan1 lost"]}

\* no "models", a model without "fans", and the expected counts 0..MaxFans
AnalysisSiteConfigs ==
    {[site_id |-> "site-1"],
     [site_id |-> "site-1", models |-> JObject([Z15 |-> JObject(NoMembers)])]}
    \cup {[site_id |-> "site-1",
            models |-> JObject([Z15 |-> JObject([fans |-> JNumber(n)])])] :
              n \in 0..MaxFans}

call_analyze_device_issues ==
    /\ op.name = "telemetry"
    /\ op' = [name |-> "analyze_device_issues",
              site_config |-> op.site_config,
              device_data |-> op.device_data,
              issues |-> analyze_device_issues(op.site_config, op.device_data)]
    /\ UNCHANGED <<detectors, handlers, scanner>>

InitAnalyze ==
    /\ detectors = <<>>
    /\ handlers = <<>>
    /\ scanner = NoneDict
    /\ op \in {[name |-> "telemetry", site_config |-> c, device_data |-> d] :
                  c \in AnalysisSiteConfigs, d \in TelemetryInputs}

NextAnalyze == call_analyze_device_issues

SpecAnalyze == InitAnalyze /\ [][NextAnalyze]_vars

(***************************************************************************)
(* Z15FanBroker._print_aggregate_report: the results of the scanner (a     *)
(* dict from result key to result) grouped by main type and by message,    *)
(* and the lines of the error summary it prints.                           *)
(***************************************************************************)
\* r'No \d+ Fan find, check again'
FanFindAgainPattern ==
    <<Lit("No "), Some(DigitChars), Lit(" Fan find, check again")>>

\* Z15Handler.normalize_message: group 0 of the search, else the message
Z15_normalize_message(message) ==
    IF Contains(message, "Fan find, check again")
       /\ SearchStart(message, FanFindAgainPattern) # 0
    THEN Slice(message, SearchStart(message, FanFindAgainPattern),
               MatchFrom(message, SearchStart(message, FanFindAgainPattern),
                         FanFindAgainPattern)[3] - 1)
    ELSE message

\* the main model of a device type string
main_type_of(device_type) ==
    IF device_type = "unknown" THEN "unknown"
    ELSE IF Contains(device_type, "Z15") THEN "Z15"
    ELSE IF Contains(device_type, "T21") THEN "T21"
    ELSE IF Contains(device_type, "S21") THEN "S21"
    ELSE IF ModelNumber(device_type) # "" THEN ModelNumber(device_type)
    ELSE device_type

result_main_type(result) == main_type_of(GetOr(result, "device_type", "unknown"))

\* device_types[main_type].append(ip) for every result
RECURSIVE device_types_of(_, _)
device_types_of(results, device_types) ==
    IF results = <<>> THEN device_types
    ELSE device_types_of(Tail(results),
             AppendTo(device_types, result_main_type(Head(results)[2]), Head(results)[1]))

\* device_error_groups[main_type][message].append(ip)
add_to_error_groups(groups, main_type, message, ip) ==
    SetItem(groups, main_type, AppendTo(GetList(groups, main_type), message, ip))

\* the loop over self.scanner.results.items(); "if message:" skips '' and
\* results without a message
RECURSIVE device_error_groups_of(_, _)
device_error_groups_of(results, groups) ==
    IF results = <<>> THEN groups
    ELSE device_error_groups_of(Tail(results),
             IF GetOr(Head(results)[2], "message", "") # ""
             THEN add_to_error_groups(groups, result_main_type(Head(results)[2]),
                                      Head(results)[2].message, Head(results)[1])
             ELSE groups)

\* sep.join(parts)
RECURSIVE JoinWith(_, _)
JoinWith(parts, sep) ==
    IF parts = <<>> THEN ""
    ELSE IF Len(parts) = 1 THEN parts[1]
    ELSE parts[1] \o sep \o JoinWith(Tail(parts), sep)

\* an address list that is never abbreviated
ip_display_all(ips) == JoinWith(ips, ", ")

\* ip_display: the first three and "etc." for more than 3 addresses
ip_display(ips) ==
    IF Len(ips) > 3
    THEN ips[1] \o ", " \o ips[2] \o ", " \o ips[3] \o ", etc."
    ELSE JoinWith(ips, ", ")

\* the printed lines "Message  : {message} | {len(ips)} devices | {ip_display}"
\* under "Errors found on {device_type} devices:", as their fields
message_lines(device_type, error_groups) ==
    [i \in DOMAIN error_groups |->
        [device_type |-> device_type,
         message |-> error_groups[i][1],
         count |-> Len(error_groups[i][2]),
         ip_display |-> ip_display(error_groups[i][2])]]

RECURSIVE error_summary(_)
error_summary(groups) ==
    IF groups = <<>> THEN <<>>
    ELSE message_lines(Head(groups)[1], Head(groups)[2]) \o error_summary(Tail(groups))

ResultAddresses == {"10.34.4.55", "10.34.4.56", "10.34.4.66", "10.34.4.67"}

\* results of Z15 miners with a fan message (bare and behind two different
\* timestamps), of a Z15j, of a miner of another model, and results without
\* a message or without a type
ResultKinds ==
    {[device_type |-> "Antminer Z15", message |-> "No 2 Fan find, check again"],
     [device_type |-> "Antminer Z15",
      message |-> "2025-06-28 09:23:01 No 2 Fan find, check again"],
     [device_type |-> "Antminer Z15",
      message |-> "2025-06-28 09:24:07 No 2 Fan find, check again"],
     [device_type |-> "Antminer Z15j", message |-> "No 2 Fan find, check again"],
     [device_type |-> "Antminer S19j Pro", message |-> "No 2 Fan find, check again"],
     [device_type |-> "unknown", message |-> ""],
     [message |-> "fan1 lost"]}

\* the keys of the results dict in the order of their insertion
ResultOrders ==
    {<<>>,
     <<"10.34.4.55">>,
     <<"10.34.4.56", "10.34.4.55", "10.34.4.66">>,
     <<"10.34.4.55", "10.34.4.56", "10.34.4.66", "10.34.4.67">>,
     <<"10.34.4.67", "10.34.4.66", "10.34.4.56", "10.34.4.55">>,
     <<"10.34.4.56", "10.34.4.67", "10.34.4.55", "10.34.4.66">>}

ScannerResults ==
    {[i \in DOMAIN q |-> <<q[i], kind[q[i]]>>] :
        q \in ResultOrders, kind \in [ResultAddresses -> ResultKinds]}

call_print_aggregate_report ==
    /\ op.name = "results"
    /\ op' = [name |-> "_print_aggregate_report",
              results |-> op.results,
              device_types |-> device_types_of(op.results, <<>>),
              device_error_groups |-> device_error_groups_of(op.results, <<>>),
              lines |-> error_summary(device_error_groups_of(op.results, <<>>))]
    /\ UNCHANGED <<detectors, handlers, scanner>>

InitReport ==
    /\ detectors = <<>>
    /\ handlers = <<>>
    /\ scanner = NoneDict
    /\ op \in {[name |-> "results", results |-> r] : r \in ScannerResults}

NextReport == call_print_aggregate_report

SpecReport == InitReport /\ [][NextReport]_vars

(***************************************************************************)
(* T21Handler.fetch_logs step by step: the connection, the wait for a      *)
(* message, the close and the return.  op holds the locals of the call;    *)
(* op.session becomes the WebSocket session as the steps complete it.      *)
(***************************************************************************)
\* for _ in range(10): the receive loop of the websocket-client branch
MaxRecv == 10

T21Addresses == {"10.0.0.5", "10.0.0.6"}

T21Messages ==
    {"[2025/06/28 09:23:01] INFO: Setup completed\n"
         \o "[2025/06/27 23:10:45] ERROR: Fan lost",
     "[2025/06/28 09:23:01] INFO: Setup completed",
     " [2025/06/28 09:23:01] INFO: Setup completed",
     "[2025/06/28 09:23:01] INFO:",
     "2025-06-28 09:23:01 INFO Setup completed",
     ""}

call_T21_fetch_logs ==
    /\ op.name = "T21_device"
    /\ op' = [name |-> "T21.fetch_logs",
              pc |-> IF op.package = "none" THEN "done" ELSE "connect",
              ip |-> op.ip,
              package |-> op.package,
              connects |-> 0,
              received |-> 0,
              matched |-> FALSE,
              session |-> [connect |-> "pending"],
              valid_logs |-> <<>>,
              result |-> NoneDict]
    /\ UNCHANGED <<detectors, handlers, scanner>>

\* websockets.connect(ws_url) / websocket.create_connection(ws_url, timeout):
\* it connects, or it fails (refusal, or the time-out of the opening)
ws_connect(outcome) ==
    /\ op.name = "T21.fetch_logs" /\ op.pc = "connect"
    /\ op' = [op EXCEPT !.connects = @ + 1,
                        !.session = IF outcome = "ok"
                                    THEN [connect |-> "ok", recv |-> "pending"]
                                    ELSE [connect |-> "error"],
                        !.pc = IF outcome = "ok" THEN "recv" ELSE "done"]
    /\ UNCHANGED <<detectors, handlers, scanner>>

\* a text message arrives: the one message of the asyncio branch, one of up
\* to MaxRecv of the websocket-client branch (re.match on the message)
ws_recv_text(message) ==
    /\ op.name = "T21.fetch_logs" /\ op.pc = "recv"
    /\ op' = [op EXCEPT
                 !.received = @ + 1,
                 !.matched = @ \/ T21_log_match(message) # NoneDict,
                 !.session = [connect |-> "ok", recv |-> "text", message |-> message],
                 !.valid_logs =
                     T21_valid_logs([connect |-> "ok", recv |-> "text",
                                     message |-> message]),
                 !.pc = IF op.package = "websocket-client" /\ op.received + 1 < MaxRecv
                        THEN "recv" ELSE "close"]
    /\ UNCHANGED <<detectors, handlers, scanner>>

\* nothing arrives in time (asyncio.wait_for(ws.recv(), timeout=5.0), the
\* socket time-out of websocket-client), recv raises, or what arrives is
\* no text
ws_recv_nothing(outcome) ==
    /\ op.name = "T21.fetch_logs" /\ op.pc = "recv"
    /\ op' = [op EXCEPT
                 !.session = IF op.received = 0
                             THEN [connect |-> "ok", recv |-> outcome] ELSE @,
                 !.pc = "close"]
    /\ UNCHANGED <<detectors, handlers, scanner>>

\* the end of "async with" / ws.close()
ws_close ==
    /\ op.name = "T21.fetch_logs" /\ op.pc = "close"
    /\ op' = [op EXCEPT !.pc = "done"]
    /\ UNCHANGED <<detectors, handlers, scanner>>

T21_fetch_logs_return ==
    /\ op.name = "T21.fetch_logs" /\ op.pc = "done"
    /\ op' = [op EXCEPT !.pc = "returned",
                        !.result = T21_tagged(
                            T21_websocket_result(op.ip, op.package, op.valid_logs))]
    /\ UNCHANGED <<detectors, handlers, scanner>>

InitT21 ==
    /\ detectors = <<>>
    /\ handlers = <<>>
    /\ scanner = NoneDict
    /\ op \in {[name |-> "T21_device", ip |-> ip, package |-> package] :
                  ip \in T21Addresses, package \in WebSocketPackages}

\* the steps of a fetch that its own code and its timers take
T21Timed ==
    \/ \E outcome \in {"ok", "error"} : ws_connect(outcome)
    \/ \E outcome \in {"timeout", "error", "bytes"} : ws_recv_nothing(outcome)
    \/ ws_close
    \/ T21_fetch_logs_return

NextT21 ==
    \/ call_T21_fetch_logs
    \/ \E message \in T21Messages : ws_recv_text(message)
    \/ T21Timed

\* the opening, the wait for a message and the close are all timed: a step
\* of the fetch that stays possible is taken, whether or not the device
\* sends anything
SpecT21 == InitT21 /\ [][NextT21]_vars /\ WF_vars(T21Timed)

ProbeReturned == op.name = "scan_ip_range" /\ op.pc = "returned"

ConnectSucceeded == {i \in DOMAIN op.ips : op.network[op.ips[i]].connect = "ok"}

ReturnsTheSucceeded ==
    ProbeReturned =>
        /\ Len(op.result) = Cardinality(ConnectSucceeded)
        /\ {op.result[k] : k \in DOMAIN op.result} = {op.ips[i] : i \in ConnectSucceeded}

\* C13: scan_ip_range terminates and returns exactly the addresses whose
\* connect succeeded, whatever the connects do (success, time-out, refusal,
\* another socket error) and however the probe workers interleave.
C13_ScanIpRangeReturnsTheResponsive ==
    []ReturnsTheSucceeded /\ ((op.name = "scan_ip_range") ~> ProbeReturned)

\* three probes that succeeded, timed out and raised socket.error; the one
\* that succeeded is returned
C13_Witness ==
    /\ ProbeReturned
    /\ op.ip_range = "10.0.0.1-3"
    /\ op.network["10.0.0.1"].connect = "timeout"
    /\ op.network["10.0.0.2"].connect = "oserror"
    /\ op.network["10.0.0.3"].connect = "ok"
    /\ op.result = <<"10.0.0.3">>

(***************************************************************************)
(* Claims about the registry and detection, checked under SpecRegistry.    *)
(***************************************************************************)
DetectDone == op.name = "detect_device_type"

ReorderDone == op.name = "reorder_detectors"

\* the index of the first occurrence of x in the sequence s
FirstIndex(s, x) == CHOOSE i \in DOMAIN s : s[i] = x /\ \A j \in 1..(i - 1) : s[j] # x

\* the positions of the registry whose detector returned true in the last detection
Hits == {i \in DOMAIN detectors : op.probe[detectors[i][1]] = "true"}

\* C1: when detectors A and B are both registered and both return true for
\* the ip, a detect_device_type that directly follows
\* reorder_detectors(["B", "A"]) returns type B, in whichever order A and B
\* were registered.
C1_ReorderThenDetectSelectsB ==
    \A A \in RegTypes, B \in RegTypes :
        ( /\ A # B
          /\ DetectDone
          /\ op.after_reorder = <<B, A>>
          /\ {A, B} \subseteq Keys(detectors)
          /\ op.probe[A] = "true"
          /\ op.probe[B] = "true" )
        => ( /\ "device_type" \in DOMAIN op.result
             /\ op.result.device_type = B )

\* a detection right after reorder_detectors(["Z15j", "Z15"]) on a registry
\* that lists Z15 before Z15j would have been impossible without the reorder:
\* both detectors answer true, a third type is registered too, Z15j is selected
C1_Witness ==
    /\ DetectDone
    /\ op.after_reorder = <<"Z15j", "Z15">>
    /\ Keys(detectors) = {"Z15j", "Z15", "T21"}
    /\ op.probe["Z15"] = "true"
    /\ op.probe["Z15j"] = "true"
    /\ op.probe["T21"] = "true"
    /\ op.result.device_type = "Z15j"

\* C2: reorder_detectors(preferred) is a stable partition of the registry:
\* first the registered types that preferred names, in the order of their
\* first occurrence in preferred, then the other registered types in the
\* order they had; the same set of types, each once, each bound to the
\* detector it had.
C2_ReorderIsStablePartition ==
    ReorderDone =>
        LET before == op.before
            preferred == op.preferred_order
            named == Keys(before) \cap {preferred[i] : i \in DOMAIN preferred}
            n == Cardinality(named)
            ks == KeyList(detectors)
        IN /\ Len(ks) = Len(before)
           /\ Keys(detectors) = Keys(before)
           /\ Cardinality(Keys(detectors)) = Len(ks)
           /\ {ks[i] : i \in 1..n} = named
           /\ \A i \in 1..n, j \in 1..n :
                  i < j => FirstIndex(preferred, ks[i]) < FirstIndex(preferred, ks[j])
           /\ SubSeq(ks, n + 1, Len(ks))
                  = SelectSeq(KeyList(before), LAMBDA k : k \notin named)
           /\ \A k \in Keys(before) : Get(detectors, k) = Get(before, k)

\* a reorder whose preferred list repeats a type and names an unregistered
\* one, and that moved a type in front of the one registered first
C2_Witness ==
    /\ ReorderDone
    /\ op.preferred_order = <<"Z15", "S21", "Z15">>
    /\ KeyList(op.before) = <<"T21", "Z15j", "Z15">>
    /\ KeyList(detectors) = <<"Z15", "T21", "Z15j">>
    /\ Get(op.before, "Z15") # Get(op.before, "T21")

\* C3: detect_device_type returns the first type, in the registry's current
\* order, whose detector returned true, with source "registry"; when no
\* detector returned true it returns type "unknown" with source None.
C3_DetectReturnsFirstMatch ==
    DetectDone =>
        /\ "device_type" \in DOMAIN op.result
        /\ IF Hits = {}
           THEN op.result = [device_type |-> "unknown",
                             device_type_source |-> NoneStr]
           ELSE LET first == CHOOSE i \in Hits : \A j \in Hits : i <= j
                IN op.result = [device_type |-> detectors[first][1],
                                device_type_source |-> "registry"]

\* a detection with a negative first detector and two positive ones after it
C3_Witness ==
    /\ DetectDone
    /\ Len(detectors) = 3
    /\ Hits = {2, 3}
    /\ op.probe[detectors[1][1]] = "false"
    /\ op.result.device_type = detectors[2][1]
    /\ op.result.device_type_source = "registry"

\* C4: a detector that raises counts as a negative match for its type only:
\* no exception leaves detect_device_type, and a later detector that returns
\* true is still selected.
C4_DetectorExceptionIsNegativeMatch ==
    DetectDone =>
        /\ "raised" \notin DOMAIN op.result
        /\ \A j \in DOMAIN detectors :
              ( /\ op.probe[detectors[j][1]] = "true"
                /\ \A i \in 1..(j - 1) : op.probe[detectors[i][1]] # "true"
                /\ \E i \in 1..(j - 1) : op.probe[detectors[i][1]] = "raise" )
              => op.result.device_type = detectors[j][1]

\* the first detector raised and the second one was selected
C4_Witness ==
    /\ DetectDone
    /\ Len(detectors) >= 2
    /\ op.probe[detectors[1][1]] = "raise"
    /\ op.probe[detectors[2][1]] = "true"
    /\ op.result.device_type = detectors[2][1]

(***************************************************************************)
(* Claims about fetching, checked under SpecFetch.                         *)
(***************************************************************************)
FetchDone == op.name = "fetch_logs_from_device"

IsErrorResult(result) ==
    /\ result # NoneDict
    /\ ~IsRaised(result)
    /\ "status" \in DOMAIN result
    /\ result.status = "error"
    /\ "message" \in DOMAIN result

\* C5: fetch_logs_from_device(ip, type) never raises: without a handler
\* registered for type it returns a result of status "error" whose message
\* names the type, and when making the handler or the handler's fetch_logs
\* raises it returns a result of status "error" whose message names the
\* exception.
C5_FetchFromDeviceNeverRaises ==
    FetchDone =>
        /\ ~IsRaised(op.result)
        /\ op.handler_class = NoneStr =>
               /\ IsErrorResult(op.result)
               /\ Contains(op.result.message, op.device_type)
        /\ IsRaised(op.outcome) =>
               /\ IsErrorResult(op.result)
               /\ op.result.ip = op.ip
               /\ Contains(op.result.message, op.outcome.text)

\* the Z15 handler's fetch_logs raised TypeError on a log that is a JSON
\* number, and the error result tells so
C5_Witness ==
    /\ FetchDone
    /\ op.handler_class = "Z15Handler"
    /\ op.fetch_called
    /\ IsRaised(op.outcome)
    /\ op.outcome.raised = "TypeError"
    /\ op.result = [ip |-> op.ip, status |-> "error",
                    message |-> "Error using Z15 handler: "
                                \o "argument of type 'int' is not iterable"]

\* C6: for every registered handler and every device response or network
\* failure, the handler's fetch_logs does not raise and returns a result whose
\* status is "success" or "error" and which has a message.
C6_HandlerFetchIsTaggedResult ==
    (FetchDone /\ op.fetch_called) =>
        /\ ~IsRaised(op.outcome)
        /\ op.outcome # NoneDict
        /\ "status" \in DOMAIN op.outcome
        /\ op.outcome.status \in {"success", "error"}
        /\ "message" \in DOMAIN op.outcome

\* Z15Handler.fetch_logs returned None: the log CGI answered 200 with a JSON
\* object that has no "log" member
C6_Witness ==
    /\ FetchDone
    /\ op.fetch_called
    /\ op.handler_class = "Z15Handler"
    /\ op.outcome = NoneDict
    /\ op.result = NoneDict

(***************************************************************************)
(* Claims about scanning, checked under SpecScan.                          *)
(***************************************************************************)
ScanDone == op.name = "scan_site"

\* no detector answers true for the device at ip
NoDetectorMatches(ip) ==
    \A t \in DOMAIN op.network[ip].probe : op.network[ip].probe[t] # "true"

\* the addresses that have a record among the subsections of the last scan
RecordedAddresses ==
    UNION {Keys(op.site_results.subsections[i].devices) :
               i \in DOMAIN op.site_results.subsections}

\* C7: after scan_subsection every IP of active_ips has an entry in devices;
\* a device no detector matched is recorded under type "unknown" and counted
\* in the summary under "unknown"; no responsive IP is dropped.
C7_EveryActiveIpIsRecorded ==
    ScanDone =>
        \A i \in DOMAIN op.site_results.subsections :
            LET r == op.site_results.subsections[i] IN
            \A j \in DOMAIN r.active_ips :
                /\ HasKey(r.devices, r.active_ips[j])
                /\ NoDetectorMatches(r.active_ips[j]) =>
                       /\ Get(r.devices, r.active_ips[j]).device_type = "unknown"
                       /\ HasKey(r.summary.working, "unknown")

\* a subsection with two responsive addresses of which only one has a record
C7_Witness ==
    /\ ScanDone
    /\ \E i \in DOMAIN op.site_results.subsections :
           /\ Len(op.site_results.subsections[i].active_ips) = 2
           /\ Len(op.site_results.subsections[i].devices) = 1

\* C8: the raw_data of the result of each scan_site call holds exactly the
\* records made for the IPs of that call's subsections, none from an earlier
\* call on the same SiteScanner.
C8_RawDataIsOfThisScan ==
    ScanDone => Keys(op.site_results.raw_data) = RecordedAddresses

\* the second scan found nothing responsive and its raw_data has records
C8_Witness ==
    /\ ScanDone
    /\ op.call = 2
    /\ RecordedAddresses = {}
    /\ Len(op.site_results.raw_data) = 2

\* the records of the subsections of the last scan, as <<ip, record>>
StoredRecords ==
    UNION {{r.devices[k] : k \in DOMAIN r.devices} :
               r \in {op.site_results.subsections[i] :
                          i \in DOMAIN op.site_results.subsections}}

\* C19: every device record scan_subsection stores carries the provenance
\* detect_device_type returned for the IP: the source is "registry" when a
\* registry detector matched, and null only for the type "unknown".
C19_RecordCarriesDetectionSource ==
    ScanDone =>
        \A rec \in StoredRecords :
            /\ ~NoDetectorMatches(rec[1]) => rec[2].device_type_source = "registry"
            /\ rec[2].device_type_source = NoneStr => rec[2].device_type = "unknown"

\* a record of a detected S21+ whose source is null
C19_Witness ==
    /\ ScanDone
    /\ \E rec \in StoredRecords :
           /\ ~NoDetectorMatches(rec[1])
           /\ rec[2].device_type = "S21+"
           /\ rec[2].status = "success"
           /\ rec[2].device_type_source = NoneStr

\* the larger of a - b and 0
NonNegativeDifference(a, b) == IF a > b THEN a - b ELSE 0

\* C9: for every subsection and every model of its roster, the summary's
\* comparison.offline is max(expected - actual, 0), actual being the number
\* of responsive devices of that type; it is never negative.
C9_OfflineIsNonNegativeDifference ==
    ScanDone =>
        \A i \in DOMAIN op.site_results.subsections :
            LET comparison == op.site_results.subsections[i].summary.comparison IN
            \A j \in DOMAIN comparison :
                comparison[j][2].offline
                    = NonNegativeDifference(comparison[j][2].expected,
                                            comparison[j][2].actual)

\* one Z15 expected, two found, and offline is -1
C9_Witness ==
    /\ ScanDone
    /\ \E i \in DOMAIN op.site_results.subsections :
           \E j \in DOMAIN op.site_results.subsections[i].summary.comparison :
               op.site_results.subsections[i].summary.comparison[j]
                   = <<"Z15", [expected |-> 1, actual |-> 2, working |-> 0,
                               with_issues |-> 2, offline |-> -1]>>

(***************************************************************************)
(* Claims about the responses of the socket API, checked under             *)
(* SpecResponse.                                                           *)
(***************************************************************************)
Z15jReceived == op.name = "Z15j.send_socket_command"

\* C14: the Z15j repair leaves a valid JSON text as it is, so a valid
\* response parses to the same value with and without the repair.
C14_RepairKeepsValidJson ==
    (Z15jReceived /\ op.loaded.ok) =>
        /\ op.fixed = RStripPercent(op.response)
        /\ op.loaded_fixed = op.loaded
        /\ op.returned = op.loaded.value

\* a valid response with "}{" inside a string: the repair writes a comma
\* into the string and the handler returns another value
C14_Witness ==
    /\ Z15jReceived
    /\ op.response = "{\"Msg\":\"a}{b\"}"
    /\ op.loaded.ok
    /\ op.loaded.value = JObject([Msg |-> JString("a}{b")])
    /\ op.fixed = "{\"Msg\":\"a},{b\"}"
    /\ op.returned = JObject([Msg |-> JString("a},{b")])

SocketReceived == op.name \in {"send_socket_command", "Z15j.send_socket_command"}

\* the elements of ResponseElements that are objects
ObjectElements == {a \in ResponseElements : At(a, 1) = "{"}

\* C20: the socket handlers (the base implementation of S21+ and S19j Pro
\* and the override of Z15j) repair a response whose only defect is the
\* missing comma between two adjacent objects: what they return is the
\* value of the text with the comma put in, and no parse error.
C20_MissingCommaIsRepaired ==
    SocketReceived =>
        \A a, b \in ObjectElements :
            op.response = StatsText(a, "", b) =>
                op.returned = json_loads(StatsText(a, ",", b)).value

\* the S21+ handler returns a parse error for two objects without a comma
C20_Witness ==
    /\ op.name = "send_socket_command"
    /\ op.class_name = "S21Handler"
    /\ op.response = "{\"STATS\":[{\"Type\":\"Antminer Z15j\"}{\"STATS\":0}]}"
    /\ op.returned =
           JObject([error |-> JString("JSON parsing error: 'S21Handler' object has no attribute 'fix_malformed_json'"),
                    raw |-> JString(op.response)])

(***************************************************************************)
(* Claims about the analysis of telemetry, checked under SpecAnalyze.      *)
(***************************************************************************)
AnalyzeDone == op.name = "analyze_device_issues"

\* the fans of the telemetry that report a speed above 0
TurningFans ==
    {i \in DOMAIN op.device_data.fans :
        /\ "speed" \in DOMAIN op.device_data.fans[i]
        /\ op.device_data.fans[i].speed > 0}

\* the "fans" of the model of the device in the site configuration, else 2
ExpectedFans ==
    IF "models" \in DOMAIN op.site_config
       /\ "fans" \in DOMAIN op.site_config.models.members["Z15"].members
    THEN op.site_config.models.members["Z15"].members["fans"].n
    ELSE 2

\* C15: for telemetry with a fan list, fewer active fans than the model
\* expects give the issue "No fans" when none is active and "Missing N
\* Fan(s)" with N = expected - active otherwise; with active >= expected
\* there is no fan issue.
C15_FanIssueText ==
    (AnalyzeDone /\ "fans" \in DOMAIN op.device_data) =>
        IF Cardinality(TurningFans) >= ExpectedFans
        THEN "fans" \notin DOMAIN op.issues
        ELSE /\ "fans" \in DOMAIN op.issues
             /\ op.issues["fans"] =
                    IF Cardinality(TurningFans) = 0 THEN "No fans"
                    ELSE "Missing "
                         \o ToString(ExpectedFans - Cardinality(TurningFans))
                         \o " Fan(s)"

\* 4 fans expected, 2 of the 3 listed fans turn
C15_Witness ==
    /\ AnalyzeDone
    /\ "fans" \in DOMAIN op.device_data
    /\ ExpectedFans = 4
    /\ op.device_data.fans = <<[speed |-> 4200], [speed |-> 0], [speed |-> 4200]>>
    /\ op.issues = [fans |-> "Missing 2 Fan(s)"]

(***************************************************************************)
(* Claims about the aggregate report, checked under SpecReport.            *)
(***************************************************************************)
ReportDone == op.name = "_print_aggregate_report"

\* the result keys of the devices of main type t that report message m
Reporting(t, m) ==
    {op.results[i][1] : i \in {j \in DOMAIN op.results :
        /\ result_main_type(op.results[j][2]) = t
        /\ GetOr(op.results[j][2], "message", "") = m}}

\* the main types and the non-empty messages among the results
ReportedPairs ==
    {<<result_main_type(op.results[i][2]), op.results[i][2].message>> :
        i \in {j \in DOMAIN op.results : GetOr(op.results[j][2], "message", "") # ""}}

\* the addresses a printed line lists
Listed(line) ==
    LET parts == Split(line.ip_display, ",") IN {Strip(parts[i]) : i \in DOMAIN parts}

\* the one line per reported pair
OneLinePerPair ==
    /\ \A i, j \in DOMAIN op.lines :
           (op.lines[i].device_type = op.lines[j].device_type
            /\ op.lines[i].message = op.lines[j].message) => i = j
    /\ {<<op.lines[i].device_type, op.lines[i].message>> : i \in DOMAIN op.lines}
           = ReportedPairs

\* C16 as stated: for every type and non-empty message the report has one
\* group that lists exactly the keys of the devices of the type with the
\* message, with their number as count, in whatever order the results are.
C16_GroupListsExactlyItsDevices ==
    ReportDone =>
        /\ OneLinePerPair
        /\ \A i \in DOMAIN op.lines :
               /\ Listed(op.lines[i])
                      = Reporting(op.lines[i].device_type, op.lines[i].message)
               /\ op.lines[i].count
                      = Cardinality(Reporting(op.lines[i].device_type, op.lines[i].message))

\* the addresses of the group of main type t and message m
GroupOf(t, m) == Get(Get(op.device_error_groups, t), m)

\* C16: the group of a main type and a non-empty message holds exactly the
\* keys of the devices of that type with that message, each once, and the
\* printed count is their number; the printed line lists them all when
\* they are at most 3, and the first three of the results and "etc." when
\* they are more.
C16_GroupHoldsItsDevicesLineAbbreviates ==
    ReportDone =>
        /\ OneLinePerPair
        /\ \A i \in DOMAIN op.lines :
               LET t == op.lines[i].device_type
                   m == op.lines[i].message
               IN /\ {GroupOf(t, m)[k] : k \in DOMAIN GroupOf(t, m)} = Reporting(t, m)
                  /\ Len(GroupOf(t, m)) = Cardinality(Reporting(t, m))
                  /\ op.lines[i].count = Cardinality(Reporting(t, m))
                  /\ IF op.lines[i].count <= 3
                     THEN Listed(op.lines[i]) = Reporting(t, m)
                     ELSE Listed(op.lines[i])
                              = {GroupOf(t, m)[k] : k \in 1..3} \cup {"etc."}

\* four Z15 miners with the same message: one group of 4, three of them
\* printed
C16_Witness ==
    /\ ReportDone
    /\ Len(op.lines) = 1
    /\ op.lines[1] = [device_type |-> "Z15",
                      message |-> "No 2 Fan find, check again",
                      count |-> 4,
                      ip_display |-> "10.34.4.67, 10.34.4.66, 10.34.4.56, etc."]
    /\ \A i \in DOMAIN op.results : op.results[i][2].device_type = "Antminer Z15"

Z15_results ==
    {i \in DOMAIN op.results :
        GetOr(op.results[i][2], "device_type", "unknown") = "Antminer Z15"}

InSameGroup(i, j) ==
    \E a, b \in DOMAIN op.device_error_groups :
        \E k \in DOMAIN op.device_error_groups[a][2] :
            LET ips == op.device_error_groups[a][2][k][2] IN
            /\ \E x \in DOMAIN ips : ips[x] = op.results[i][1]
            /\ \E y \in DOMAIN ips : ips[y] = op.results[j][1]

\* C17: the groups are by canonical type and by the message as the handler
\* of the type normalizes it: two Z15 miners whose messages differ only in
\* what Z15Handler.normalize_message strips are in the same group.
C17_GroupsByNormalizedMessage ==
    ReportDone =>
        \A i, j \in Z15_results :
            (/\ op.results[i][2].message # ""
             /\ Z15_normalize_message(op.results[i][2].message)
                    = Z15_normalize_message(op.results[j][2].message))
                => InSameGroup(i, j)

\* two Z15 miners report the fan message behind different timestamps and
\* are listed in two groups
C17_Witness ==
    /\ ReportDone
    /\ Len(op.results) = 3
    /\ Len(op.lines) = 2
    /\ op.lines[1] = [device_type |-> "Z15",
                      message |-> "2025-06-28 09:23:01 No 2 Fan find, check again",
                      count |-> 1, ip_display |-> "10.34.4.56"]
    /\ op.lines[2] = [device_type |-> "Z15",
                      message |-> "2025-06-28 09:24:07 No 2 Fan find, check again",
                      count |-> 2, ip_display |-> "10.34.4.55, 10.34.4.66"]

(***************************************************************************)
(* Claims about the WebSocket fetch of the T21 handler, checked under      *)
(* SpecT21.                                                                *)
(***************************************************************************)
T21Fetching == op.name = "T21.fetch_logs"

T21Returned == T21Fetching /\ op.pc = "returned"

\* the connection failed, no message came within the wait, or no line of
\* what came has the form [YYYY/MM/DD HH:MM:SS] LEVEL: message
NothingUsable ==
    \/ op.session.connect = "error"
    \/ op.session.connect = "ok" /\ op.session.recv = "timeout"
    \/ /\ op.session.connect = "ok" /\ op.session.recv = "text"
       /\ IF op.package = "websocket-client" THEN ~op.matched
          ELSE \A line \in {Split(op.session.message, "\n")[i] :
                               i \in DOMAIN Split(op.session.message, "\n")} :
                   T21_log_match(line) = NoneDict

FallsBackOnce ==
    /\ T21Fetching => op.connects <= 1
    /\ (T21Returned /\ NothingUsable) =>
           /\ op.result.status = "error"
           /\ op.result.message = "Could not connect to logs WebSocket endpoint"

\* C18: the WebSocket fetch of the T21 handler connects once at most and
\* always returns; after a failed connection, a wait without a message or a
\* message without a log line it returns status "error" with the message
\* "Could not connect to logs WebSocket endpoint".
C18_T21FetchReturnsFallback == []FallsBackOnce /\ (T21Fetching ~> T21Returned)

\* the wait for the first message timed out and the fallback was returned
C18_Witness ==
    /\ T21Returned
    /\ op.package = "websockets"
    /\ op.connects = 1
    /\ op.session = [connect |-> "ok", recv |-> "timeout"]
    /\ op.result = T21_fallback_get_logs(op.ip)

(***************************************************************************)
(* Z15jHandler.fetch_logs step by step: the stats exchange on the socket,  *)
(* the GET of the log CGI when the socket path gave nothing usable, and    *)
(* the return.  op holds the locals of the call; op.requests is what was   *)
(* sent to the device, in order.                                           *)
(***************************************************************************)
Z15jAddresses == {"10.0.0.5", "10.0.0.6"}

Z15jRpm == {0, 4000}

\* the second STATS object: fan_num and the fan slots fan1..fanMaxFans
Z15jFanStats(fan_num, rpm) ==
    [k \in {"fan_num"} \cup {FanKey(i) : i \in 1..MaxFans} |->
        IF k = "fan_num" THEN JNumber(fan_num)
        ELSE JNumber(rpm[CHOOSE i \in 1..MaxFans : FanKey(i) = k])]

Z15jFanStatsSet ==
    {Z15jFanStats(fan_num, rpm) : fan_num \in 0..MaxFans, rpm \in [1..MaxFans -> Z15jRpm]}

\* the stats response with the given members next to STATS
Z15jStatsDoc(top, fans) ==
    JObject(top @@ [STATS |-> JArray(<<JObject([Type |-> JString("Antminer Z15j")]),
                                        JObject(fans)>>)])

\* what the device answers on the socket: stats with fan data (as the
\* firmware sends them, and with a fan_num next to STATS as well), stats
\* that are short, of another shape or no JSON, and no answer
Z15jExchanges ==
    {SocketData(UnseparatedBody("{\"STATS\":[{...}{...}]}", Z15jStatsDoc(top, fans))) :
         top \in {NoMembers, [fan_num |-> JNumber(2)]}, fans \in Z15jFanStatsSet}
    \cup
    {SocketData(JsonBody("{\"STATS\": [{...}]}",
         JObject([STATS |-> JArray(<<JObject([Type |-> JString("Antminer Z15j")])>>)]))),
     SocketData(JsonBody("{\"STATS\": []}", JObject([STATS |-> JArray(<<>>)]))),
     SocketData(JsonBody("{\"STATS\": {...}}",
         JObject([STATS |-> JObject([a |-> JNumber(1), b |-> JNumber(2)])]))),
     SocketData(JsonBody("{\"STATUS\": [...]}", JObject([STATUS |-> JArray(<<>>)]))),
     SocketData(JsonBody("{\"STATS\": ..., \"fan_num\": \"two\"}",
         Z15jStatsDoc([fan_num |-> JString("two")],
                      Z15jFanStats(2, [i \in 1..MaxFans |-> 4000])))),
     SocketData(TextBody("Socket connect failed")),
     SocketFailed("timeout"),
     SocketFailed("refused"),
     SocketFailed("oserror")}

\* what the log CGI answers
Z15jResponses ==
    {HttpResponse(200,
         LogBody(JString("Jan 1 cgminer[1]: No 2 Fan find, check again\n"))),
     HttpResponse(200, LogBody(JString(""))),
     HttpResponse(401, TextBody("Unauthorized")),
     HttpRefused}

call_Z15j_fetch_logs ==
    /\ op.name = "Z15j_device"
    /\ op' = [name |-> "Z15j.fetch_logs",
              pc |-> "send_socket_command",
              ip |-> op.ip,
              exchange |-> op.exchange,
              response |-> op.response,
              requests |-> <<>>,
              stats |-> JNull,
              socket_result |-> NoneDict,
              http_response |-> NoneDict,
              result |-> NoneDict]
    /\ UNCHANGED <<detectors, handlers, scanner>>

\* stats = self.send_socket_command(ip, "stats") and the rest of the try:
\* a result from the fan data, or the way to _fetch_logs_via_http
Z15j_stats_exchange ==
    /\ op.name = "Z15j.fetch_logs" /\ op.pc = "send_socket_command"
    /\ op' = [op EXCEPT
                 !.requests = Append(@, <<"socket", op.ip, "stats">>),
                 !.stats = Z15j_send_socket_command(op.exchange),
                 !.socket_result =
                     Z15j_socket_result(Z15j_send_socket_command(op.exchange)),
                 !.pc = IF Z15j_socket_result(Z15j_send_socket_command(op.exchange))
                            = UseHttp
                        THEN "_fetch_logs_via_http" ELSE "return"]
    /\ UNCHANGED <<detectors, handlers, scanner>>

\* requests.get(url, auth=..., timeout=timeout) of _fetch_logs_via_http
Z15j_http_get ==
    /\ op.name = "Z15j.fetch_logs" /\ op.pc = "_fetch_logs_via_http"
    /\ op' = [op EXCEPT
                 !.requests = Append(@, <<"http", op.ip, "/cgi-bin/get_kernel_log.cgi">>),
                 !.http_response = op.response,
                 !.pc = "return"]
    /\ UNCHANGED <<detectors, handlers, scanner>>

\* the return of fetch_logs: the result of the socket path, or what
\* _fetch_logs_via_http makes of the response it got
Z15j_fetch_logs_return ==
    /\ op.name = "Z15j.fetch_logs" /\ op.pc = "return"
    /\ op' = [op EXCEPT
                 !.pc = "returned",
                 !.result =
                     Z15j_or_http(op.socket_result,
                         IF op.http_response = NoneDict THEN NoneDict
                         ELSE Z15j_fetch_logs_via_http(op.ip, op.http_response, TRUE))]
    /\ UNCHANGED <<detectors, handlers, scanner>>

InitZ15j ==
    /\ detectors = <<>>
    /\ handlers = <<>>
    /\ scanner = NoneDict
    /\ op \in {[name |-> "Z15j_device", ip |-> ip, exchange |-> exchange,
                response |-> response] :
                  ip \in Z15jAddresses, exchange \in Z15jExchanges,
                  response \in Z15jResponses}

\* the socket exchange (s.settimeout(timeout)) and the GET (timeout=timeout)
\* end by themselves
Z15jTimed ==
    \/ Z15j_stats_exchange
    \/ Z15j_http_get

NextZ15j ==
    \/ call_Z15j_fetch_logs
    \/ Z15jTimed
    \/ Z15j_fetch_logs_return

SpecZ15j == InitZ15j /\ [][NextZ15j]_vars /\ WF_vars(Z15jTimed)

(***************************************************************************)
(* Claims about the fetch of the Z15j handler, checked under SpecZ15j.     *)
(***************************************************************************)
Z15jFetching == op.name = "Z15j.fetch_logs"

Z15jReturned == Z15jFetching /\ op.pc = "returned"

\* the response has two STATS objects and the second reports fan_num
HasFanReport ==
    /\ op.stats.t = "object"
    /\ "STATS" \in DOMAIN op.stats.members
    /\ op.stats.members["STATS"].t = "array"
    /\ Len(op.stats.members["STATS"].items) > 1
    /\ op.stats.members["STATS"].items[2].t = "object"
    /\ "fan_num" \in DOMAIN op.stats.members["STATS"].items[2].members
    /\ "error" \notin DOMAIN op.stats.members["STATS"].items[2].members

FanReport == op.stats.members["STATS"].items[2].members

\* W: the fan slots reporting a nonzero RPM; E: the fan_num of the fan data
WorkingSlots == {i \in 1..6 : FanKey(i) \in DOMAIN FanReport /\ FanReport[FanKey(i)].n > 0}

ReportedFanNum == FanReport["fan_num"].n

\* C21: Z15jHandler.fetch_logs compares by count: with W fan slots reporting
\* nonzero RPM and E the fan_num reported with the fan data, the result is
\* OK with an empty message when W >= E and an error with the message
\* "No N Fan find, check again", N = E - W, when W < E.
C21_Z15jComparesByCount ==
    (Z15jReturned /\ HasFanReport) =>
        IF Cardinality(WorkingSlots) >= ReportedFanNum
        THEN op.result.status = "ok" /\ op.result.message = ""
        ELSE /\ op.result.status = "error"
             /\ op.result.message =
                    "No " \o ToString(ReportedFanNum - Cardinality(WorkingSlots))
                          \o " Fan find, check again"

\* two fans expected, one slot turning, and the result is OK
C21_Witness ==
    /\ Z15jReturned /\ HasFanReport
    /\ "fan_num" \notin DOMAIN op.stats.members
    /\ ReportedFanNum = 2
    /\ WorkingSlots = {3}
    /\ op.result.status = "ok"
    /\ op.result.message = ""

\* the exchange on the socket is over
StatsExchanged == Z15jFetching /\ op.pc # "send_socket_command"

\* the connection failed or timed out, or what came back has no two STATS
\* entries
NoTwoStatsEntries ==
    \/ "fail" \in DOMAIN op.exchange
    \/ op.stats.t # "object"
    \/ "STATS" \notin DOMAIN op.stats.members
    \/ ~HasLen(op.stats.members["STATS"])
    \/ PyLen(op.stats.members["STATS"]) <= 1

\* something in the try raises: STATS is no list (stats["STATS"][1]), the
\* fan_num next to STATS is no number (int(stats.get("fan_num", 0)))
TryRaises ==
    /\ ~NoTwoStatsEntries
    /\ \/ op.stats.members["STATS"].t = "object"
       \/ /\ "fan_num" \in DOMAIN op.stats.members
          /\ ~PyInt(op.stats.members["fan_num"]).ok
          /\ HasFanReport

SocketPathFailed == StatsExchanged /\ (NoTwoStatsEntries \/ TryRaises)

HttpAttempted ==
    /\ Z15jFetching
    /\ op.requests = <<<<"socket", op.ip, "stats">>,
                       <<"http", op.ip, "/cgi-bin/get_kernel_log.cgi">>>>

\* the HTTP request never precedes the socket exchange, and a fetch whose
\* socket path failed returns what the HTTP path gives for the same IP
HttpFollowsSocket ==
    /\ Z15jFetching =>
           \/ op.requests = <<>>
           \/ op.requests = <<<<"socket", op.ip, "stats">>>>
           \/ HttpAttempted
    /\ (Z15jReturned /\ SocketPathFailed) =>
           /\ HttpAttempted
           /\ op.result = Z15j_fetch_logs_via_http(op.ip, op.response, TRUE)
           /\ op.result.device_type_source = "http_fallback"

MaxLines == 3

T21LogLines ==
    {"[2025/06/27 23:10:45] ERROR: Fan lost",
     "[2025/06/28 09:23:01] INFO: Setup completed",
     "[2025/06/28 09:23:01] WARN: Pool unreachable",
     "[2024/12/31 23:59:59] INFO: Booted",
     "2025-06-28 09:23:01 INFO no brackets"}

\* the line a device logs at second sec of one minute
BurstLine(sec) ==
    "[2025/06/28 09:23:" \o (IF sec < 10 THEN "0" ELSE "") \o ToString(sec)
        \o "] INFO: step " \o ToString(sec)

\* twelve lines of one minute: in order, newest first, and mixed
Bursts ==
    {[i \in 1..12 |-> BurstLine(i)],
     [i \in 1..12 |-> BurstLine(13 - i)],
     [i \in 1..12 |-> BurstLine(<<7, 3, 11, 1, 9, 5, 12, 2, 10, 4, 8, 6>>[i])]}

T21LineSequences == SeqsUpTo(T21LogLines, MaxLines) \cup Bursts

call_fetch_logs_via_websocket ==
    /\ op.name = "T21_session"
    /\ op' = [name |-> "T21.fetch_logs_via_websocket",
              ip |-> op.ip,
              package |-> op.package,
              lines |-> op.lines,
              result |-> T21_fetch_logs_via_websocket(op.ip, op.package,
                             [connect |-> "ok", recv |-> "text",
                              message |-> JoinWith(op.lines, "\n")])]
    /\ UNCHANGED <<detectors, handlers, scanner>>

InitT21Logs ==
    /\ detectors = <<>>
    /\ handlers = <<>>
    /\ scanner = NoneDict
    /\ op \in {[name |-> "T21_session", ip |-> ip, package |-> package,
                lines |-> lines] :
                  ip \in T21Addresses, package \in WebSocketPackages,
                  lines \in T21LineSequences}

NextT21Logs == call_fetch_logs_via_websocket

SpecT21Logs == InitT21Logs /\ [][NextT21Logs]_vars

(***************************************************************************)
(* Claims about the entries the T21 handler surfaces and retains, checked  *)
(* under SpecT21Logs.                                                      *)
(***************************************************************************)
LogsFetched == op.name = "T21.fetch_logs_via_websocket"

\* the entries of the lines that match the log format, in arrival order
MatchingEntries ==
    LET matching == SelectSeq(op.lines, LAMBDA line : T21_log_match(line) # NoneDict)
    IN [i \in DOMAIN matching |-> T21_log_match(matching[i])]

\* a timestamp "YYYY/MM/DD HH:MM:SS" as numbers, and the order of time
Moment(ts) ==
    <<DigitsToInt(Slice(ts, 1, 4)), DigitsToInt(Slice(ts, 6, 7)),
      DigitsToInt(Slice(ts, 9, 10)), DigitsToInt(Slice(ts, 12, 13)),
      DigitsToInt(Slice(ts, 15, 16)), DigitsToInt(Slice(ts, 18, 19))>>

Earlier(a, b) ==
    \E k \in 1..6 : /\ Moment(a)[k] < Moment(b)[k]
                    /\ \A j \in 1..(k - 1) : Moment(a)[j] = Moment(b)[j]

\* how many entries of q are later than timestamp ts / equal entry e
LaterIn(q, ts) == Cardinality({i \in DOMAIN q : Earlier(ts, q[i].timestamp)})

CountIn(q, e) == Cardinality({i \in DOMAIN q : q[i] = e})

Min(a, b) == IF a < b THEN a ELSE b

SurfacesMostRecent(entries, result) ==
    \E i \in DOMAIN entries :
        /\ \A j \in DOMAIN entries :
               ~Earlier(entries[i].timestamp, entries[j].timestamp)
        /\ result.message = entries[i].message
        /\ result.level = entries[i].level
        /\ result.date = Slice(entries[i].timestamp, 1, 10)
        /\ result.time = Slice(entries[i].timestamp, 12, 19)

RetainsLatestTen(entries, logs) ==
    /\ Len(logs) = Min(10, Len(entries))
    /\ \A i \in DOMAIN logs :
           /\ CountIn(logs, logs[i]) <= CountIn(entries, logs[i])
           /\ \A j \in DOMAIN logs :
                  i < j => ~Earlier(logs[j].timestamp, logs[i].timestamp)
    /\ \A i \in DOMAIN entries :
           LaterIn(logs, entries[i].timestamp)
               = Min(Len(logs), LaterIn(entries, entries[i].timestamp))

\* C22: in T21 WebSocket telemetry, among the lines of the received message
\* that match the log format, the surfaced message, date, time and level
\* are those of the entry with the greatest timestamp whatever the order of
\* arrival, and the retained logs are the (at most ten) entries with the
\* greatest timestamps, in ascending timestamp order.
C22_SurfacesMostRecentByValue ==
    (LogsFetched /\ op.package = "websockets" /\ MatchingEntries # <<>>) =>
        /\ op.result.status = "success"
        /\ SurfacesMostRecent(MatchingEntries, op.result)
        /\ RetainsLatestTen(MatchingEntries, op.result.logs)

\* twelve lines arrived in mixed order: the one of second 12 is surfaced and
\* those of seconds 3 to 12 are retained
C22_Witness ==
    /\ LogsFetched /\ op.package = "websockets"
    /\ Len(op.lines) = 12
    /\ op.lines[1] = BurstLine(7)
    /\ op.result.message = "step 12"
    /\ op.result.time = "09:23:12"
    /\ Len(op.result.logs) = 10
    /\ op.result.logs[1].message = "step 3"

\* what the asyncio transport returns for the lines of this call
AsyncResult ==
    T21_fetch_logs_via_websocket(op.ip, "websockets",
        [connect |-> "ok", recv |-> "text", message |-> JoinWith(op.lines, "\n")])

\* C28: the blocking websocket-client transport of fetch_logs_via_websocket
\* parses as the asynchronous one does: for the same received log lines
\* both return a success result that surfaces the same most recent entry
\* and retains the same entries.
C28_BlockingTransportParsesAlike ==
    (LogsFetched /\ op.package = "websocket-client" /\ MatchingEntries # <<>>) =>
        /\ AsyncResult.status = "success"
        /\ op.result.status = "success"
        /\ op.result.message = AsyncResult.message
        /\ op.result.date = AsyncResult.date
        /\ op.result.time = AsyncResult.time
        /\ op.result.level = AsyncResult.level
        /\ op.result.logs = AsyncResult.logs

\* two log lines: a success over the asyncio transport, the fallback error
\* over websocket-client
C28_Witness ==
    /\ LogsFetched /\ op.package = "websocket-client"
    /\ op.lines = <<"[2025/06/28 09:23:01] INFO: Setup completed",
                    "[2025/06/27 23:10:45] ERROR: Fan lost">>
    /\ AsyncResult.status = "success"
    /\ AsyncResult.message = "Setup completed"
    /\ op.result = T21_fallback_get_logs(op.ip)

(***************************************************************************)
(* SiteScanner.generate_subsection_summary on the records scan_subsection  *)
(* stores: the telemetry results of the handlers for devices of every      *)
(* kind, under the type the detection gave.                                *)
(***************************************************************************)
SummaryAddresses == <<"10.0.0.1", "10.0.0.2">>

SummarySiteConfig ==
    [site_id |-> "site-1",
     models |-> JObject([Z15 |-> JObject([fans |-> JNumber(2)])])]

\* the roster of the subsection: one miner of every type
SummaryRoster ==
    [i \in DOMAIN HandlerModules |-> [model |-> HandlerModules[i][1], quantity |-> 1]]
        \o << [model |-> "S21 Pro", quantity |-> 1] >>

\* the second device of the subsection, if any: a Z15j with an empty log, a
\* Z15j that answers on no port
SecondDevices ==
    {<<>>,
     <<"Z15j", HttpDevice(HttpResponse(200, LogBody(JString(""))))>>,
     <<"Z15j", HttpDevice(HttpRefused)>>}

\* the loop of scan_subsection over the active IPs, for devices given as
\* <<detected type, device>>
RECURSIVE records_of(_, _, _)
records_of(found, ips, stored) ==
    IF found = <<>> THEN stored
    ELSE records_of(Tail(found), Tail(ips),
             record_result(Head(ips), [device_type |-> Head(found)[1]],
                 fetch_logs_result(imported_handlers(Len(HandlerModules)),
                     SummarySiteConfig, Head(ips), Head(found)[1],
                     Head(found)[2], InstalledPackage),
                 stored))

call_generate_subsection_summary ==
    /\ op.name = "subsection"
    /\ op' = [name |-> "generate_subsection_summary",
              devices |-> records_of(op.found, SummaryAddresses, << <<>>, <<>> >>)[1],
              summary |->
                  generate_subsection_summary(SummarySiteConfig,
                      [expected_miners |-> SummaryRoster,
                       devices |-> records_of(op.found, SummaryAddresses,
                                              << <<>>, <<>> >>)[1]])]
    /\ UNCHANGED <<detectors, handlers, scanner>>

InitSummary ==
    /\ detectors = <<>>
    /\ handlers = <<>>
    /\ scanner = NoneDict
    /\ op \in {[name |-> "subsection", found |-> <<first>> \o second] :
                  first \in FetchTypes \X Devices,
                  second \in {IF d = <<>> THEN <<>> ELSE <<d>> : d \in SecondDevices}}

NextSummary == call_generate_subsection_summary

SpecSummary == InitSummary /\ [][NextSummary]_vars

(***************************************************************************)
(* Claims about the summary of a subsection, checked under SpecSummary.    *)
(***************************************************************************)
SummaryDone == op.name = "generate_subsection_summary"

\* the stored records, each with its address
Telemetry == {op.devices[i] : i \in DOMAIN op.devices}

CanonicalType(record) == normalize_device_type(GetOr(record, "device_type", "unknown"))

Errored(record) == GetOr(record, "status", NoneStr) = "error"

OfType(t) == {d \in Telemetry : CanonicalType(d[2]) = t}

ErroredOfType(t) == {d \in OfType(t) : Errored(d[2])}

\* the device is listed with its issues under type t, the message issue
\* being the message of its record
ListedWithMessage(d, t) ==
    /\ HasKey(op.summary.issues, t)
    /\ \E i \in DOMAIN Get(op.summary.issues, t) :
           /\ Get(op.summary.issues, t)[i].ip = d[1]
           /\ "message" \in DOMAIN Get(op.summary.issues, t)[i].issues
           /\ Get(op.summary.issues, t)[i].issues.message = d[2].message

ComparisonRows == {op.summary.comparison[i] : i \in DOMAIN op.summary.comparison}

WorkingRows == {op.summary.working[i] : i \in DOMAIN op.summary.working}

\* C23: a device whose telemetry result has status "error" is counted, for
\* its canonical type, in comparison.actual and in comparison.with_issues
\* and never as working, and its error message is carried verbatim as the
\* message issue of the device.
C23_ErroredDeviceIsActualWithIssues ==
    SummaryDone =>
        /\ \A d \in Telemetry :
               Errored(d[2]) => ListedWithMessage(d, CanonicalType(d[2]))
        /\ \A row \in ComparisonRows :
               /\ row[2].actual = Cardinality(OfType(row[1]))
               /\ row[2].with_issues >= Cardinality(ErroredOfType(row[1]))
               /\ row[2].working
                      <= Cardinality(OfType(row[1])) - Cardinality(ErroredOfType(row[1]))
        /\ \A row \in WorkingRows :
               row[2] <= Cardinality(OfType(row[1])) - Cardinality(ErroredOfType(row[1]))

\* a Z15j whose log CGI answers with HTTP 401 next to a Z15j with an empty
\* log: two actual, one with issues, one working
C23_Witness ==
    /\ SummaryDone
    /\ Cardinality(OfType("Z15j")) = 2
    /\ \E d \in ErroredOfType("Z15j") :
           /\ d[2].message = "HTTP Error: 401"
           /\ ListedWithMessage(d, "Z15j")
    /\ <<"Z15j", [expected |-> 1, actual |-> 2, working |-> 1,
                  with_issues |-> 1, offline |-> -1]>> \in ComparisonRows

(***************************************************************************)
(* Claims about the order in which the probe workers complete, checked     *)
(* under SpecScan.                                                         *)
(***************************************************************************)
\* the working counts and the comparison values of the summaries of a scan,
\* by subsection and type
SummaryValues(site_results) ==
    [i \in DOMAIN site_results.subsections |->
        LET summary == site_results.subsections[i].summary IN
        [working |-> {summary.working[j] : j \in DOMAIN summary.working},
         comparison |-> {summary.comparison[j] : j \in DOMAIN summary.comparison}]]

\* the last scan again, its probe workers completing in the given order
ScanCompletingAs(completion) ==
    scan_site_results([site_config |-> scanner.site_config, raw_scan_data |-> <<>>],
                      op.network, completion, handlers, detectors)

\* C29: aggregation does not depend on completion order: for fixed probe
\* outcomes and device responses, the working counts per type and the
\* comparison values of the subsection summaries are the same for every
\* order in which the probe workers complete.
C29_SummaryIgnoresCompletionOrder ==
    ScanDone =>
        \A completion \in Completions :
            SummaryValues(ScanCompletingAs(completion)) = SummaryValues(op.site_results)

\* the later address completed first, an S21+ without issues and a Z15 with
\* a fan message behind the two, and the summary counts both
C29_Witness ==
    /\ ScanDone
    /\ \E i \in DOMAIN op.site_results.subsections :
           LET r == op.site_results.subsections[i] IN
           /\ r.active_ips = <<"10.0.0.2", "10.0.0.1">>
           /\ {r.summary.working[j] : j \in DOMAIN r.summary.working}
                  = {<<"S21+", 1>>, <<"Z15", 0>>}
           /\ <<"Z15", [expected |-> 1, actual |-> 1, working |-> 0,
                        with_issues |-> 1, offline |-> 0]>>
                  \in {r.summary.comparison[j] : j \in DOMAIN r.summary.comparison}

(***************************************************************************)
(* Claims that compare the analysis of two telemetry readings, checked     *)
(* under SpecAnalyze.                                                      *)
(***************************************************************************)
\* the number of fans of a reading that report a speed above 0
ActiveCount(device_data) ==
    Cardinality({i \in DOMAIN device_data.fans :
                    /\ "speed" \in DOMAIN device_data.fans[i]
                    /\ device_data.fans[i].speed > 0})

\* the N of "Missing N Fan(s)"
MissingNumber(text) == DigitsToInt(Slice(text, 9, Len(text) - 7))

\* the readings with a fan list and fewer active fans than the analysed one
ReadingsWithFewerFans ==
    {d \in TelemetryInputs :
        /\ "fans" \in DOMAIN d
        /\ ActiveCount(d) < ActiveCount(op.device_data)}

\* C24: fan issue derivation is monotone: for a fixed expected fan count, if
\* telemetry with active-fan count a yields a fan issue, telemetry with any
\* smaller active count yields a fan issue too, and the reported number of
\* missing fans never decreases as the active count decreases, with
\* "No fans" at zero.
C24_FanIssueIsMonotone ==
    (AnalyzeDone /\ "fans" \in DOMAIN op.device_data /\ "fans" \in DOMAIN op.issues) =>
        \A d \in ReadingsWithFewerFans :
            LET issues == analyze_device_issues(op.site_config, d) IN
            /\ "fans" \in DOMAIN issues
            /\ IF ActiveCount(d) = 0
               THEN issues["fans"] = "No fans"
               ELSE /\ op.issues["fans"] # "No fans"
                    /\ issues["fans"] # "No fans"
                    /\ MissingNumber(issues["fans"]) >= MissingNumber(op.issues["fans"])

\* 4 fans expected and 2 active give "Missing 2 Fan(s)"; readings with one
\* active fan and with none are among those compared
C24_Witness ==
    /\ AnalyzeDone
    /\ "fans" \in DOMAIN op.device_data
    /\ ExpectedFans = 4
    /\ op.device_data.fans = <<[speed |-> 4200], [speed |-> 4200]>>
    /\ op.issues = [fans |-> "Missing 2 Fan(s)"]
    /\ MissingNumber(op.issues["fans"]) = 2
    /\ {ActiveCount(d) : d \in ReadingsWithFewerFans} = {0, 1}

(***************************************************************************)
(* DeviceRegistry.normalize_device_type on the type strings devices        *)
(* report: a type name, alone or after a vendor prefix, with or without a  *)
(* firmware suffix.                                                        *)
(***************************************************************************)
\* the names the handler modules register, and S21 Pro
RegisteredNames ==
    {HandlerModules[i][1] : i \in DOMAIN HandlerModules} \cup {"S21 Pro"}

RawPrefixes == {"", "Antminer ", "Bitmain Antminer "}

RawNames == RegisteredNames \cup {"unknown", "L7", "Web server", "S21Pro"}

RawSuffixes == {"", " (Vnish 1.2.6)"}

RawTypes ==
    {prefix \o name \o suffix :
         prefix \in RawPrefixes, name \in RawNames, suffix \in RawSuffixes}

call_normalize_device_type ==
    /\ op.name = "raw"
    /\ op' = [name |-> "normalize_device_type",
              device_type |-> op.device_type,
              result |-> normalize_device_type(op.device_type)]
    /\ UNCHANGED <<detectors, handlers, scanner>>

InitNormalize ==
    /\ detectors = <<>>
    /\ handlers = <<>>
    /\ scanner = NoneDict
    /\ op \in {[name |-> "raw", device_type |-> raw] : raw \in RawTypes}

NextNormalize == call_normalize_device_type

SpecNormalize == InitNormalize /\ [][NextNormalize]_vars

(***************************************************************************)
(* Claims about the normalization of type strings, checked under           *)
(* SpecNormalize.                                                          *)
(***************************************************************************)
NormalizeDone == op.name = "normalize_device_type"

\* the registered names the raw string contains
ContainedNames == {n \in RegisteredNames : Contains(op.device_type, n)}

\* a contained name that is part of no other contained name
MostSpecific(n) ==
    /\ n \in ContainedNames
    /\ \A m \in ContainedNames : m # n => ~Contains(m, n)

\* C25: normalize_device_type maps every raw string that contains a
\* registered type name (Z15j, Z15, T21, S21+, S21 Pro, S19j Pro, DG1+) to a
\* registered type name, the most specific one when several match (a string
\* containing "Z15j" is never resolved to "Z15"); "unknown" maps to
\* "unknown"; a string matching nothing is returned unchanged.
C25_NormalizeResolvesRegisteredNames ==
    NormalizeDone =>
        IF op.device_type = "unknown" THEN op.result = "unknown"
        ELSE IF ContainedNames # {}
        THEN op.result \in RegisteredNames /\ MostSpecific(op.result)
        ELSE ModelNumber(op.device_type) = "" => op.result = op.device_type

\* the type string of an S19j Pro resolves to S19, which is no registered
\* name
C25_Witness ==
    /\ NormalizeDone
    /\ op.device_type = "Antminer S19j Pro"
    /\ ContainedNames = {"S19j Pro"}
    /\ op.result = "S19"
    /\ op.result \notin RegisteredNames

(***************************************************************************)
(* Claims about the thread pool of scan_ip_range, checked under SpecPool.  *)
(***************************************************************************)
Probing == op.name = "scan_ip_range"

\* the probes in flight: check_ip_responsive called and not yet returned
InFlight == Running(op.futures)

\* one future for every address of the range, no address twice
OneFuturePerAddress ==
    /\ op.ips = parse_ip_range(op.ip_range)
    /\ DOMAIN op.probes = DOMAIN op.ips
    /\ \A i, j \in DOMAIN op.ips : op.ips[i] = op.ips[j] => i = j

\* C26: at any moment during scan_ip_range at most 50 reachability probes
\* are in flight, however many addresses the range expands to, and every
\* expanded address is probed exactly once.
C26_AtMostFiftyProbesInFlight ==
    Probing =>
        /\ Cardinality(InFlight) <= 50
        /\ OneFuturePerAddress
        /\ \A i \in DOMAIN op.probes : op.probes[i] <= 1
        /\ op.pc = "returned" => \A i \in DOMAIN op.probes : op.probes[i] = 1

\* 52 addresses: 50 probes in flight while the other two wait in the queue
C26_Witness ==
    /\ Probing
    /\ Len(op.ips) = 52
    /\ Cardinality(InFlight) = 50
    /\ Cardinality(Queued(op.futures)) = 2


(***************************************************************************)
(* Claims about the addresses of an expansion, checked under SpecParse     *)
(***************************************************************************)
\* four dot-separated decimal octets, each in 0..255
IsIPv4(text) ==
    LET octets == Split(text, ".") IN
    /\ Len(octets) = 4
    /\ \A i \in 1..4 : IsDigit(octets[i]) /\ DigitsToInt(octets[i]) <= 255

\* the elements of a list that are no IPv4 address
NotIPv4(ip_list) == {i \in DOMAIN ip_list : ~IsIPv4(ip_list[i])}

\* C30: every address parse_ip_range returns, for a CIDR text, a dash range
\* or a single address, is a valid IPv4 address; a dash range whose end or
\* base octets fall outside 0..255 yields no out-of-range address.
C30_ParsedAddressesAreIPv4 ==
    ParseDone => NotIPv4(op.result) = {}

\* 10.0.0.255-300 expands to 46 texts, of which only the first is an address
C30_Witness ==
    /\ ParseDone
    /\ op.ip_range = "10.0.0.255-300"
    /\ Len(op.result) = 46
    /\ op.result[2] = "10.0.0.256"
    /\ op.result[46] = "10.0.0.300"
    /\ NotIPv4(op.result) = 2..46


============================================================================
